---- MODULE Spec2Model ----
(***************************************************************************)
(* A state-machine model of the tinygo-minidrone driver (package           *)
(* minidrone, type Minidrone) and of the goroutines that use it: callers   *)
(* of the movement operations, the piloting-command (PCMD) loop spawned by *)
(* StartPcmd, callers of Halt, senders on the command characteristic and   *)
(* the transport's notification callback.                                  *)
(***************************************************************************)
EXTENDS Integers, Sequences, FiniteSets, TLC

(***************************************************************************)
(* Bounds of the model.                                                    *)
(***************************************************************************)
NumCallers == 2
MaxCalls == 2
MaxTicks == 2
NumSenders == 2
MaxCmds == 3
MaxNotifs == 3
MaxFrameLen == 8
MaxEvents == 2

Callers == 1 .. NumCallers
Senders == 1 .. NumSenders
\* The session runs one PCMD loop: Start calls StartPcmd once.
Loops == {1}
Timers == {NumCallers + 1}
Goroutines == Callers \cup Timers
MaxTime == 2
Durations == {1, 2}
MaxLoops == 2
LoopSlots == 1 .. MaxLoops

\* Magnitudes passed to the directional operations by the concurrent callers.
Magnitudes == {50}

\* Magnitudes passed to the directional operations called one after the other:
\* below 0, 0, inside the range, 100, above 100 and beyond a byte.
WideMagnitudes == {-300, -1, 0, 1, 50, 100, 101, 300}

(***************************************************************************)
(* State.                                                                  *)
(***************************************************************************)
VARIABLES
  Pcmd,        \* m.Pcmd: the motion vector
  pcmdMutex,   \* m.pcmdMutex: 0 when free, else the holder's id
  stepsfa0a,   \* m.stepsfa0a: uint16 sequence counter of the PCMD channel
  stepsfa0b,   \* m.stepsfa0b: uint16 sequence counter of the command channel
  pcmddata,    \* m.pcmddata: the 19-byte PCMD frame buffer
  buf,         \* m.buf[11..14]: the bytes generatePcmd writes into m.buf
  pc,          \* position of each caller inside its current operation
  op,          \* operation each caller is executing
  val,         \* argument of that operation
  ret,         \* result of the caller's last completed operation
  pre,         \* history: m.Pcmd when the caller's operation took the mutex
  loopPc,      \* position of each PCMD loop goroutine
  pcmdOut,     \* history: last frame handed to the PCMD characteristic
  pcmdWrites,  \* history: number of frames handed to the PCMD characteristic
  pcmdFailed,  \* history: some write to the PCMD characteristic returned an error
  shutdownReceived, \* history: a PCMD loop has received from m.shutdown
  committed,   \* history: m.Pcmd as left by the last completed mutator call
  tickSnap,    \* history: committed, as of the tick's acquisition of the mutex
  nCalls,      \* history: number of movement calls started
  commandCharacteristic, \* m.commandCharacteristic: "nil" until Start has set it
  mu,          \* the tool layer's mutex: 0 when free, else the holder's id
  cpc,         \* position of each sender on the command channel
  cop,         \* command operation each sender is executing
  ctx,         \* who called it: "api" (directly), "tool" (a tool handler), "halt",
               \* "init" (Init), "trim1" and "trim2" (Start's two flat trims)
  creg,        \* the value of m.stepsfa0b the sender loaded for its increment
  cframe,      \* the frame the sender has built
  cret,        \* error result of the sender's last write
  cmdOut,      \* history: last frame handed to the command characteristic
  cmdSeqs,     \* history: sequence bytes of the frames handed to it, in order
  nCmds,       \* history: number of command operations started by the callers
  nIncs,       \* history: number of m.stepsfa0b++ statements completed
  seq0a,       \* history: m.stepsfa0a at the start
  seq0b,       \* history: m.stepsfa0b at the start
  panicked,    \* the process has died of a run-time panic
  Flying,      \* m.Flying
  pilotingStateHandler, \* m.pilotingStateHandler: "nil" or "set"
  dpc,         \* position of the notification callback
  data,        \* the notification being processed, or the last one processed
  prevFlying,  \* history: m.Flying when that notification was delivered
  repeated,    \* history: that notification equals the one delivered before it
  obsThis,     \* history: observer invocations made for that notification
  obsArgs,     \* history: arguments of the last observer invocation
  obsFlying,   \* history: m.Flying as the observer found it
  nNotifs,     \* history: number of notifications delivered
  regAtNotify, \* history: an observer was registered when that notification arrived
  startRet,    \* result of Start: "none" until it has returned, then "nil" or "error"
  handshake,   \* history: what the transport answered to each step of Start, in order
  response,    \* isFlyingToolHandler's last response: "none", "true" or "false"
  responseAt,  \* history: frames sent and notifications decoded when it read Flying
  tpc,         \* position of each timed tool handler and of each timer goroutine
  tool,        \* the handler's tool: the driver operation it calls
  speed,       \* the handler's speed argument
  timers,      \* the timers armed by time.AfterFunc: the time each is due, in order
  fired,       \* the timers that have fired
  now,         \* the time
  motion       \* history: the last timed tool call, and when its duration ends

statusVars == <<Flying, pilotingStateHandler, dpc, data, prevFlying, repeated, obsThis,
                obsArgs, obsFlying, nNotifs, regAtNotify>>
startVars == <<startRet, handshake>>
timerVars == <<tpc, tool, speed, timers, fired, now, motion>>
toolVars == <<response, responseAt, timerVars>>

cmdVars == <<commandCharacteristic, mu, cpc, cop, ctx, creg, cframe, cret, cmdOut,
             cmdSeqs, nCmds, nIncs, seq0a, seq0b, panicked>>

vars == <<Pcmd, pcmdMutex, stepsfa0a, stepsfa0b, pcmddata, buf, pc, op, val, ret,
          pre, loopPc, pcmdOut, pcmdWrites,
          pcmdFailed, shutdownReceived, committed, tickSnap, nCalls, cmdVars,
          statusVars, startVars, toolVars>>

driverVars == <<Pcmd, pcmdMutex, stepsfa0a, stepsfa0b, pcmddata, buf>>
callerVars == <<pc, op, val, ret, pre, nCalls>>
loopVars == <<loopPc, pcmdOut, pcmdWrites,
                 pcmdFailed, shutdownReceived, tickSnap>>

ByteOfMagnitude(x) == IF x < 0 THEN (0 - x) % 256 ELSE x % 256

(***************************************************************************)
(* Values.                                                                 *)
(***************************************************************************)
\* Go's byte(x) of an int: the low 8 bits.
Byte(x) == x % 256

\* uint16 increment (x++ on a uint16 field).
IncSaturating(x) == IF x = 65535 THEN 65535 ELSE x + 1

IncU16(x) == (x + 1) % 65536

\* Pcmd{Flag: 0, Roll: 0, Pitch: 0, Yaw: 0, Gaz: 0, Psi: 0}; Psi is held as the
\* 32-bit pattern math.Float32bits gives.
ZeroPcmd == [Flag |-> 0, Roll |-> 0, Pitch |-> 0, Yaw |-> 0, Gaz |-> 0, Psi |-> 0]

\* make([]byte, 19)
ZeroFrame == [i \in 1 .. 19 |-> 0]

validatePitchNoFloor(v) == IF v > 100 THEN 100 ELSE v

validatePitchNoCeiling(v) == IF v < 0 THEN 0 ELSE v

validatePitch(v) == IF v > 100 THEN 100 ELSE IF v < 0 THEN 0 ELSE v

\* Ids of mutex holders: a caller holds it under its own number, a loop under LoopId.
LoopId(l) == 100 + l

\* The application starts at most MaxCalls movement calls; the Hover of each
\* timer that has fired comes on top of them.
CallsLeft == nCalls < MaxCalls + Cardinality(fired)

LockNoExclusion(id) == pcmdMutex' = id

\* m.pcmdMutex.Lock(): granted only while the mutex is free.
Lock(id) == pcmdMutex = 0 /\ pcmdMutex' = id

UnlockLeavesHeld == UNCHANGED pcmdMutex

\* m.pcmdMutex.Unlock()
Unlock == pcmdMutex' = 0

(***************************************************************************)
(* Movement operations.  Each takes the mutex, writes Flag, then its axis, *)
(* and releases the mutex on return.                                       *)
(***************************************************************************)
Directional(t, vals, name, axis, sign) ==
  \/ /\ pc[t] = "idle"
     /\ CallsLeft
     /\ \E v \in vals : val' = [val EXCEPT ![t] = v]
     /\ Lock(t)
     /\ op' = [op EXCEPT ![t] = name]
     /\ pre' = [pre EXCEPT ![t] = Pcmd]
     /\ pc' = [pc EXCEPT ![t] = "flag"]
     /\ nCalls' = nCalls + 1
     /\ UNCHANGED <<Pcmd, stepsfa0a, stepsfa0b, pcmddata, buf, ret, committed>>
     /\ UNCHANGED loopVars
     /\ UNCHANGED cmdVars
     /\ UNCHANGED statusVars
     /\ UNCHANGED startVars
     /\ UNCHANGED toolVars
  \/ /\ pc[t] = "flag" /\ op[t] = name
     /\ Pcmd' = [Pcmd EXCEPT !.Flag = 1]
     /\ pc' = [pc EXCEPT ![t] = "axis"]
     /\ UNCHANGED <<pcmdMutex, stepsfa0a, stepsfa0b, pcmddata, buf, op, val, ret, pre,
                    nCalls, committed>>
     /\ UNCHANGED loopVars
     /\ UNCHANGED cmdVars
     /\ UNCHANGED statusVars
     /\ UNCHANGED startVars
     /\ UNCHANGED toolVars
  \/ /\ pc[t] = "axis" /\ op[t] = name
     /\ Pcmd' = [Pcmd EXCEPT ![axis] = validatePitch(val[t]) * sign]
     /\ pc' = [pc EXCEPT ![t] = "ret"]
     /\ UNCHANGED <<pcmdMutex, stepsfa0a, stepsfa0b, pcmddata, buf, op, val, ret, pre,
                    nCalls, committed>>
     /\ UNCHANGED loopVars
     /\ UNCHANGED cmdVars
     /\ UNCHANGED statusVars
     /\ UNCHANGED startVars
     /\ UNCHANGED toolVars
  \/ /\ pc[t] = "ret" /\ op[t] = name
     /\ Unlock
     /\ ret' = [ret EXCEPT ![t] = "nil"]
     /\ committed' = Pcmd
     /\ pc' = [pc EXCEPT ![t] = "idle"]
     /\ op' = [op EXCEPT ![t] = "none"]
     /\ val' = [val EXCEPT ![t] = 0]
     /\ pre' = [pre EXCEPT ![t] = ZeroPcmd]
     /\ UNCHANGED <<Pcmd, stepsfa0a, stepsfa0b, pcmddata, buf, nCalls>>
     /\ UNCHANGED loopVars
     /\ UNCHANGED cmdVars
     /\ UNCHANGED statusVars
     /\ UNCHANGED startVars
     /\ UNCHANGED toolVars

Up(t, vals) == Directional(t, vals, "Up", "Gaz", 1)

Down(t, vals) == Directional(t, vals, "Down", "Gaz", -1)

Forward(t, vals) == Directional(t, vals, "Forward", "Pitch", 1)

Backward(t, vals) == Directional(t, vals, "Backward", "Pitch", -1)

RightSetsPitch(t, vals) == Directional(t, vals, "Right", "Pitch", 1)

Right(t, vals) == Directional(t, vals, "Right", "Roll", 1)

Left(t, vals) == Directional(t, vals, "Left", "Roll", -1)

Clockwise(t, vals) == Directional(t, vals, "Clockwise", "Yaw", 1)

CounterClockwise(t, vals) == Directional(t, vals, "CounterClockwise", "Yaw", -1)

HoverKeepsAxes(p) == [p EXCEPT !.Flag = 0]

\* The value Hover assigns to m.Pcmd, whatever it held.
HoverPcmd(p) == ZeroPcmd

HoverTransmits(t) ==
  /\ pc[t] = "assign" /\ op[t] = "Hover"
  /\ pcmdOut' = pcmddata
  /\ pcmdWrites' = pcmdWrites + 1
  /\ pc' = [pc EXCEPT ![t] = "ret"]
  /\ Pcmd' = HoverPcmd(Pcmd)
  /\ UNCHANGED <<pcmdMutex, stepsfa0a, stepsfa0b, pcmddata, buf, op, val, ret, pre, nCalls,
                 loopPc, pcmdFailed, shutdownReceived, tickSnap, committed>>
  /\ UNCHANGED cmdVars
  /\ UNCHANGED statusVars
  /\ UNCHANGED startVars
  /\ UNCHANGED toolVars

\* Hover's assignment of the vector, made with the mutex held.
HoverAssigns(t) ==
  /\ pc[t] = "assign" /\ op[t] = "Hover"
  /\ Pcmd' = HoverPcmd(Pcmd)
  /\ pc' = [pc EXCEPT ![t] = "ret"]
  /\ UNCHANGED <<pcmdMutex, stepsfa0a, stepsfa0b, pcmddata, buf, op, val, ret, pre,
                 nCalls, committed>>
  /\ UNCHANGED loopVars
  /\ UNCHANGED cmdVars
  /\ UNCHANGED statusVars
  /\ UNCHANGED startVars
  /\ UNCHANGED toolVars

Hover(t) ==
  \/ /\ pc[t] = "idle"
     /\ CallsLeft
     /\ Lock(t)
     /\ op' = [op EXCEPT ![t] = "Hover"]
     /\ val' = [val EXCEPT ![t] = 0]
     /\ pre' = [pre EXCEPT ![t] = Pcmd]
     /\ pc' = [pc EXCEPT ![t] = "assign"]
     /\ nCalls' = nCalls + 1
     /\ UNCHANGED <<Pcmd, stepsfa0a, stepsfa0b, pcmddata, buf, ret, committed>>
     /\ UNCHANGED loopVars
     /\ UNCHANGED cmdVars
     /\ UNCHANGED statusVars
     /\ UNCHANGED startVars
     /\ UNCHANGED toolVars
  \/ HoverAssigns(t)
  \/ /\ pc[t] = "ret" /\ op[t] = "Hover"
     /\ Unlock
     /\ ret' = [ret EXCEPT ![t] = "nil"]
     /\ committed' = Pcmd
     /\ pc' = [pc EXCEPT ![t] = "idle"]
     /\ op' = [op EXCEPT ![t] = "none"]
     /\ val' = [val EXCEPT ![t] = 0]
     /\ pre' = [pre EXCEPT ![t] = ZeroPcmd]
     /\ UNCHANGED <<Pcmd, stepsfa0a, stepsfa0b, pcmddata, buf, nCalls>>
     /\ UNCHANGED loopVars
     /\ UNCHANGED cmdVars
     /\ UNCHANGED statusVars
     /\ UNCHANGED startVars
     /\ UNCHANGED toolVars

(***************************************************************************)
(* The piloting-command loop.                                              *)
(***************************************************************************)
\* binary.LittleEndian.PutUint32: the four bytes of a 32-bit pattern, low byte first.
PutUint32(x) == [i \in 11 .. 14 |-> (x \div (256 ^ (i - 11))) % 256]

generatePcmd(l) ==
  \/ /\ loopPc[l] = "lock"
     /\ Lock(LoopId(l))
     /\ tickSnap' = committed
     /\ loopPc' = [loopPc EXCEPT ![l] = "hdr"]
     /\ UNCHANGED <<Pcmd, stepsfa0a, stepsfa0b, pcmddata, buf, pcmdOut, pcmdWrites,
                    pcmdFailed, shutdownReceived, committed>>
     /\ UNCHANGED callerVars
     /\ UNCHANGED statusVars
     /\ UNCHANGED startVars
     /\ UNCHANGED toolVars
     /\ UNCHANGED cmdVars
  \/ /\ loopPc[l] = "hdr"
     /\ stepsfa0a' = IncU16(stepsfa0a)
     /\ pcmddata' = [pcmddata EXCEPT ![1] = 2, ![2] = Byte(stepsfa0a'), ![3] = 2,
                                     ![4] = 0, ![5] = 2, ![6] = 0]
     /\ loopPc' = [loopPc EXCEPT ![l] = "flag"]
     /\ UNCHANGED <<Pcmd, pcmdMutex, stepsfa0b, buf, pcmdOut, pcmdWrites,
                    pcmdFailed, shutdownReceived, tickSnap, committed>>
     /\ UNCHANGED callerVars
     /\ UNCHANGED statusVars
     /\ UNCHANGED startVars
     /\ UNCHANGED toolVars
     /\ UNCHANGED cmdVars
  \/ /\ loopPc[l] = "flag"
     /\ pcmddata' = [pcmddata EXCEPT ![7] = Byte(Pcmd.Flag)]
     /\ loopPc' = [loopPc EXCEPT ![l] = "axes"]
     /\ UNCHANGED <<Pcmd, pcmdMutex, stepsfa0a, stepsfa0b, buf, pcmdOut, pcmdWrites,
                    pcmdFailed, shutdownReceived, tickSnap, committed>>
     /\ UNCHANGED callerVars
     /\ UNCHANGED statusVars
     /\ UNCHANGED startVars
     /\ UNCHANGED toolVars
     /\ UNCHANGED cmdVars
  \/ /\ loopPc[l] = "axes"
     /\ pcmddata' = [pcmddata EXCEPT ![8] = Byte(Pcmd.Roll), ![9] = Byte(Pcmd.Pitch),
                                     ![10] = Byte(Pcmd.Yaw), ![11] = Byte(Pcmd.Gaz)]
     /\ loopPc' = [loopPc EXCEPT ![l] = "psi"]
     /\ UNCHANGED <<Pcmd, pcmdMutex, stepsfa0a, stepsfa0b, buf, pcmdOut, pcmdWrites,
                    pcmdFailed, shutdownReceived, tickSnap, committed>>
     /\ UNCHANGED callerVars
     /\ UNCHANGED statusVars
     /\ UNCHANGED startVars
     /\ UNCHANGED toolVars
     /\ UNCHANGED cmdVars
  \/ /\ loopPc[l] = "psi"
     /\ buf' = PutUint32(Pcmd.Psi)
     /\ pcmddata' = [pcmddata EXCEPT ![16] = 0, ![17] = 0, ![18] = 0, ![19] = 0]
     /\ Unlock
     /\ loopPc' = [loopPc EXCEPT ![l] = "write"]
     /\ UNCHANGED <<Pcmd, stepsfa0a, stepsfa0b, pcmdOut, pcmdWrites,
                    pcmdFailed, shutdownReceived, tickSnap, committed>>
     /\ UNCHANGED callerVars
     /\ UNCHANGED statusVars
     /\ UNCHANGED startVars
     /\ UNCHANGED toolVars
     /\ UNCHANGED cmdVars

AfterWriteStopsOnError(err) == IF err # "nil" THEN "exited" ELSE "select"

\* Where the loop goes after WriteWithoutResponse has returned err: it prints a
\* non-nil err, sleeps 50 ms and goes round again.
AfterWrite(err) == "select"

\* One pass of the goroutine StartPcmd spawns that takes the select's default case:
\* the settle delay, then generatePcmd, the write and the 50 ms sleep.
PcmdTick(l) ==
  \/ /\ loopPc[l] = "sleep500"
     /\ loopPc' = [loopPc EXCEPT ![l] = "select"]
     /\ UNCHANGED <<pcmdOut, pcmdWrites,
                 pcmdFailed, shutdownReceived, tickSnap, committed>>
     /\ UNCHANGED driverVars
     /\ UNCHANGED callerVars
     /\ UNCHANGED statusVars
     /\ UNCHANGED startVars
     /\ UNCHANGED toolVars
     /\ UNCHANGED cmdVars
  \/ /\ loopPc[l] = "select"
     /\ \A s \in Senders : cpc[s] # "send"
     /\ pcmdWrites < MaxTicks
     /\ loopPc' = [loopPc EXCEPT ![l] = "lock"]
     /\ UNCHANGED <<pcmdOut, pcmdWrites,
                 pcmdFailed, shutdownReceived, tickSnap, committed>>
     /\ UNCHANGED driverVars
     /\ UNCHANGED callerVars
     /\ UNCHANGED statusVars
     /\ UNCHANGED startVars
     /\ UNCHANGED toolVars
     /\ UNCHANGED cmdVars
  \/ generatePcmd(l)
     \* m.pcmdCharacteristic is assigned together with m.commandCharacteristic
     \* (Start); until then it is nil and the write dereferences nil.
  \/ /\ loopPc[l] = "write"
     /\ IF commandCharacteristic = "nil"
        THEN /\ panicked' = TRUE
             /\ UNCHANGED <<loopPc, pcmdOut, pcmdWrites, pcmdFailed>>
        ELSE /\ pcmdOut' = pcmddata
             /\ pcmdWrites' = pcmdWrites + 1
             /\ \E err \in {"nil", "error"} :
                  /\ pcmdFailed' = (pcmdFailed \/ err # "nil")
                  /\ loopPc' = [loopPc EXCEPT ![l] = AfterWrite(err)]
             /\ UNCHANGED panicked
     /\ UNCHANGED <<tickSnap, committed, shutdownReceived>>
     /\ UNCHANGED driverVars
     /\ UNCHANGED callerVars
     /\ UNCHANGED statusVars
     /\ UNCHANGED startVars
     /\ UNCHANGED toolVars
     /\ UNCHANGED <<commandCharacteristic, mu, cpc, cop, ctx, creg, cframe, cret, cmdOut,
                    cmdSeqs, nCmds, nIncs, seq0a, seq0b>>

\* go func() { ... }(): each call starts one more goroutine; the loops that have
\* not been started yet are the free slots.
FreeSlots == {l \in LoopSlots : loopPc[l] = "none"}

Spawned ==
  [loopPc EXCEPT ![CHOOSE l \in FreeSlots : \A k \in FreeSlots : l <= k] = "sleep500"]

StartPcmd ==
  /\ FreeSlots # {}
  /\ loopPc' = Spawned
  /\ UNCHANGED <<pcmdOut, pcmdWrites, pcmdFailed, shutdownReceived, tickSnap, committed>>
  /\ UNCHANGED driverVars
  /\ UNCHANGED callerVars
  /\ UNCHANGED statusVars
  /\ UNCHANGED startVars
  /\ UNCHANGED toolVars
  /\ UNCHANGED cmdVars

PcmdShutdownMidTick(l) ==
  /\ loopPc[l] \in {"select", "lock", "hdr", "flag", "axes", "psi", "write"}
  /\ \E s \in Senders :
       /\ cpc[s] = "send"
       /\ cpc' = [cpc EXCEPT ![s] = "sleep"]
  /\ loopPc' = [loopPc EXCEPT ![l] = "exited"]
  /\ shutdownReceived' = TRUE
  /\ UNCHANGED <<pcmdOut, pcmdWrites, pcmdFailed, tickSnap, committed>>
  /\ UNCHANGED driverVars
  /\ UNCHANGED callerVars
  /\ UNCHANGED statusVars
  /\ UNCHANGED startVars
  /\ UNCHANGED toolVars
  /\ UNCHANGED <<commandCharacteristic, mu, cop, ctx, creg, cframe, cret, cmdOut,
                 cmdSeqs, nCmds, nIncs, seq0a, seq0b, panicked>>

\* case <-m.shutdown: the channel is unbuffered, so the receive and the send of a
\* Halt blocked in "m.shutdown <- true" happen together; the goroutine returns.
PcmdShutdown(l) ==
  /\ loopPc[l] = "select"
  /\ \E s \in Senders :
       /\ cpc[s] = "send"
       /\ cpc' = [cpc EXCEPT ![s] = "sleep"]
  /\ loopPc' = [loopPc EXCEPT ![l] = "exited"]
  /\ shutdownReceived' = TRUE
  /\ UNCHANGED <<pcmdOut, pcmdWrites, pcmdFailed, tickSnap, committed>>
  /\ UNCHANGED driverVars
  /\ UNCHANGED callerVars
  /\ UNCHANGED statusVars
  /\ UNCHANGED startVars
  /\ UNCHANGED toolVars
  /\ UNCHANGED <<commandCharacteristic, mu, cop, ctx, creg, cframe, cret, cmdOut,
                 cmdSeqs, nCmds, nIncs, seq0a, seq0b, panicked>>

(***************************************************************************)
(* The command channel.  Every operation increments m.stepsfa0b, builds    *)
(* its frame around byte(m.stepsfa0b) and writes it to the command         *)
(* characteristic.  The increment is a plain load and store of the field.  *)
(***************************************************************************)
noCmdChange == UNCHANGED <<Pcmd, pcmdMutex, stepsfa0a, pcmddata, buf, committed>>

GenerateAllStatesFrame(seq) ==
  <<4, seq, 0, 4, 1, 0, 50, 48, 49, 52, 45, 49, 48, 45, 50, 56, 0>>

TakeOffFrame(seq) == <<2, seq, 2, 0, 1, 0>>

LandFrame(seq) == <<2, seq, 2, 0, 3, 0>>

FlatTrimFrame(seq) == <<2, seq, 2, 0, 0, 0>>

EmergencyFrame(seq) == <<2, seq, 2, 0, 4, 0>>

generateAnimation(anim, seq) == <<2, seq, 2, 4, 0, 0, anim, 0, 0, 0>>

FrontFlipFrame(seq) == generateAnimation(0, seq)

BackFlipFrame(seq) == generateAnimation(1, seq)

RightFlipFrame(seq) == generateAnimation(2, seq)

LeftFlipFrame(seq) == generateAnimation(3, seq)

\* Where a command operation returns to.
ReturnToSkipsLoop(c) ==
  CASE c = "api" -> "idle" [] c = "tool" -> "unlock" [] c = "halt" -> "send"
    [] c = "init" -> "initRet" [] c = "trim1" -> "startRet" [] c = "trim2" -> "startRet"

ReturnTo(c) ==
  CASE c = "api" -> "idle" [] c = "tool" -> "unlock" [] c = "halt" -> "send"
    [] c = "init" -> "initRet" [] c = "trim1" -> "startPcmd" [] c = "trim2" -> "startRet"

\* WriteWithoutResponse through a nil *DeviceCharacteristic dereferences nil.
WriteCommand(s) ==
  IF commandCharacteristic = "nil"
  THEN /\ panicked' = TRUE
       /\ UNCHANGED <<cpc, cop, creg, cframe, cret, cmdOut, cmdSeqs>>
  ELSE /\ \E err \in {"nil", "error"} : cret' = [cret EXCEPT ![s] = err]
       /\ cmdOut' = cframe[s]
       /\ cmdSeqs' = Append(cmdSeqs, cframe[s][2])
       /\ cpc' = [cpc EXCEPT ![s] = ReturnTo(ctx[s])]
       /\ cop' = [cop EXCEPT ![s] = "none"]
       /\ creg' = [creg EXCEPT ![s] = 0]
       /\ cframe' = [cframe EXCEPT ![s] = <<>>]
       /\ UNCHANGED panicked

IncrementedTwice(s) == IncU16(IncU16(creg[s]))

\* The value m.stepsfa0b++ stores: the loaded value plus one, in 16 bits.
Incremented(s) == IncU16(creg[s])

\* The body of a command operation, from its first statement to its return.
Command(s, name, frame) ==
  \/ /\ cpc[s] = "enter" /\ cop[s] = name
     /\ creg' = [creg EXCEPT ![s] = stepsfa0b]
     /\ cpc' = [cpc EXCEPT ![s] = "store"]
     /\ UNCHANGED <<stepsfa0b, commandCharacteristic, mu, cop, ctx, cframe, cret, cmdOut,
                    cmdSeqs, nCmds, nIncs, seq0a, seq0b, panicked>>
     /\ noCmdChange
     /\ UNCHANGED callerVars
     /\ UNCHANGED statusVars
     /\ UNCHANGED startVars
     /\ UNCHANGED toolVars
     /\ UNCHANGED loopVars
  \/ /\ cpc[s] = "store" /\ cop[s] = name
     /\ stepsfa0b' = Incremented(s)
     /\ nIncs' = nIncs + 1
     /\ cpc' = [cpc EXCEPT ![s] = "build"]
     /\ UNCHANGED <<commandCharacteristic, mu, cop, ctx, creg, cframe, cret, cmdOut,
                    cmdSeqs, nCmds, seq0a, seq0b, panicked>>
     /\ noCmdChange
     /\ UNCHANGED callerVars
     /\ UNCHANGED statusVars
     /\ UNCHANGED startVars
     /\ UNCHANGED toolVars
     /\ UNCHANGED loopVars
  \/ /\ cpc[s] = "build" /\ cop[s] = name
     /\ cframe' = [cframe EXCEPT ![s] = frame]
     /\ cpc' = [cpc EXCEPT ![s] = "write"]
     /\ UNCHANGED <<stepsfa0b, commandCharacteristic, mu, cop, ctx, creg, cret, cmdOut,
                    cmdSeqs, nCmds, nIncs, seq0a, seq0b, panicked>>
     /\ noCmdChange
     /\ UNCHANGED callerVars
     /\ UNCHANGED statusVars
     /\ UNCHANGED startVars
     /\ UNCHANGED toolVars
     /\ UNCHANGED loopVars
  \/ /\ cpc[s] = "write" /\ cop[s] = name
     /\ WriteCommand(s)
     /\ UNCHANGED <<stepsfa0b, commandCharacteristic, mu, ctx, nCmds, nIncs, seq0a, seq0b>>
     /\ noCmdChange
     /\ UNCHANGED callerVars
     /\ UNCHANGED statusVars
     /\ UNCHANGED startVars
     /\ UNCHANGED toolVars
     /\ UNCHANGED loopVars

GenerateAllStates(s) == Command(s, "GenerateAllStates", GenerateAllStatesFrame(Byte(stepsfa0b)))

TakeOffSetsFlying(s) ==
  \/ Command(s, "TakeOff", TakeOffFrame(Byte(stepsfa0b)))
  \/ /\ cpc[s] = "enter" /\ cop[s] = "TakeOff"
     /\ ~Flying
     /\ Flying' = TRUE
     /\ UNCHANGED <<pilotingStateHandler, dpc, data, prevFlying, repeated, obsThis,
                    obsArgs, obsFlying, nNotifs, regAtNotify>>
     /\ UNCHANGED <<driverVars, callerVars, loopVars, cmdVars, startVars, toolVars,
                    committed>>

TakeOff(s) == Command(s, "TakeOff", TakeOffFrame(Byte(stepsfa0b)))

LandClearsFlying(s) ==
  \/ Command(s, "Land", LandFrame(Byte(stepsfa0b)))
  \/ /\ cpc[s] = "enter" /\ cop[s] = "Land"
     /\ Flying
     /\ Flying' = FALSE
     /\ UNCHANGED <<pilotingStateHandler, dpc, data, prevFlying, repeated, obsThis,
                    obsArgs, obsFlying, nNotifs, regAtNotify>>
     /\ UNCHANGED <<driverVars, callerVars, loopVars, cmdVars, startVars, toolVars,
                    committed>>

Land(s) == Command(s, "Land", LandFrame(Byte(stepsfa0b)))

FlatTrim(s) == Command(s, "FlatTrim", FlatTrimFrame(Byte(stepsfa0b)))

Emergency(s) == Command(s, "Emergency", EmergencyFrame(Byte(stepsfa0b)))

FrontFlip(s) == Command(s, "FrontFlip", FrontFlipFrame(Byte(stepsfa0b)))

BackFlip(s) == Command(s, "BackFlip", BackFlipFrame(Byte(stepsfa0b)))

RightFlip(s) == Command(s, "RightFlip", RightFlipFrame(Byte(stepsfa0b)))

LeftFlip(s) == Command(s, "LeftFlip", LeftFlipFrame(Byte(stepsfa0b)))

CommandOps ==
  {"GenerateAllStates", "TakeOff", "Land", "FlatTrim", "Emergency",
   "FrontFlip", "BackFlip", "RightFlip", "LeftFlip"}

\* The command operations the tool layer exposes.
ToolCommandOps == {"TakeOff", "Land", "FrontFlip", "BackFlip"}

CommandBody(s) ==
  \/ GenerateAllStates(s) \/ TakeOff(s) \/ Land(s) \/ FlatTrim(s) \/ Emergency(s)
  \/ FrontFlip(s) \/ BackFlip(s) \/ RightFlip(s) \/ LeftFlip(s)

\* A caller of the driver invokes a command operation directly.
ApiCall(s) ==
  /\ cpc[s] = "idle"
  /\ nCmds < MaxCmds
  /\ \E name \in CommandOps : cop' = [cop EXCEPT ![s] = name]
  /\ ctx' = [ctx EXCEPT ![s] = "api"]
  /\ cpc' = [cpc EXCEPT ![s] = "enter"]
  /\ nCmds' = nCmds + 1
  /\ UNCHANGED <<stepsfa0b, commandCharacteristic, mu, creg, cframe, cret, cmdOut,
                 cmdSeqs, nIncs, seq0a, seq0b, panicked>>
  /\ noCmdChange
  /\ UNCHANGED callerVars
  /\ UNCHANGED statusVars
  /\ UNCHANGED startVars
  /\ UNCHANGED toolVars
  /\ UNCHANGED loopVars

\* takeoffToolHandler, landToolHandler, frontFlipToolHandler, backFlipToolHandler:
\* mu.Lock(), the driver call, and mu.Unlock() on return.
ToolHandler(s) ==
  \/ /\ cpc[s] = "idle"
     /\ nCmds < MaxCmds
     /\ mu = 0
     /\ mu' = s
     /\ \E name \in ToolCommandOps : cop' = [cop EXCEPT ![s] = name]
     /\ ctx' = [ctx EXCEPT ![s] = "tool"]
     /\ cpc' = [cpc EXCEPT ![s] = "enter"]
     /\ nCmds' = nCmds + 1
     /\ UNCHANGED <<stepsfa0b, commandCharacteristic, creg, cframe, cret, cmdOut,
                    cmdSeqs, nIncs, seq0a, seq0b, panicked>>
     /\ noCmdChange
     /\ UNCHANGED callerVars
     /\ UNCHANGED statusVars
     /\ UNCHANGED startVars
     /\ UNCHANGED toolVars
     /\ UNCHANGED loopVars
  \/ /\ cpc[s] = "unlock"
     /\ mu' = 0
     /\ cpc' = [cpc EXCEPT ![s] = "idle"]
     /\ UNCHANGED <<stepsfa0b, commandCharacteristic, cop, ctx, creg, cframe, cret,
                    cmdOut, cmdSeqs, nCmds, nIncs, seq0a, seq0b, panicked>>
     /\ noCmdChange
     /\ UNCHANGED callerVars
     /\ UNCHANGED statusVars
     /\ UNCHANGED startVars
     /\ UNCHANGED toolVars
     /\ UNCHANGED loopVars

\* Halt: m.Land(), then the send on m.shutdown (completed by PcmdShutdown), then
\* the 500 ms sleep and the return.
HaltStopsOnLandError(s) ==
  \/ /\ cpc[s] = "idle"
     /\ nCmds < MaxCmds
     /\ cop' = [cop EXCEPT ![s] = "Land"]
     /\ ctx' = [ctx EXCEPT ![s] = "halt"]
     /\ cpc' = [cpc EXCEPT ![s] = "enter"]
     /\ nCmds' = nCmds + 1
     /\ UNCHANGED <<stepsfa0b, commandCharacteristic, mu, creg, cframe, cret, cmdOut,
                    cmdSeqs, nIncs, seq0a, seq0b, panicked>>
     /\ noCmdChange
     /\ UNCHANGED callerVars
     /\ UNCHANGED statusVars
     /\ UNCHANGED startVars
     /\ UNCHANGED toolVars
     /\ UNCHANGED loopVars
  \/ /\ cpc[s] = "sleep"
     /\ cpc' = [cpc EXCEPT ![s] = "idle"]
     /\ cret' = [cret EXCEPT ![s] = "nil"]
     /\ UNCHANGED <<stepsfa0b, commandCharacteristic, mu, cop, ctx, creg, cframe,
                    cmdOut, cmdSeqs, nCmds, nIncs, seq0a, seq0b, panicked>>
     /\ noCmdChange
     /\ UNCHANGED callerVars
     /\ UNCHANGED statusVars
     /\ UNCHANGED startVars
     /\ UNCHANGED toolVars
     /\ UNCHANGED loopVars
  \/ /\ cpc[s] = "send"
     /\ cret[s] = "error"
     /\ cpc' = [cpc EXCEPT ![s] = "idle"]
     /\ UNCHANGED <<stepsfa0b, commandCharacteristic, mu, cop, ctx, creg, cframe, cret,
                    cmdOut, cmdSeqs, nCmds, nIncs, seq0a, seq0b, panicked>>
     /\ noCmdChange
     /\ UNCHANGED callerVars
     /\ UNCHANGED statusVars
     /\ UNCHANGED startVars
     /\ UNCHANGED toolVars
     /\ UNCHANGED loopVars

Halt(s) ==
  \/ /\ cpc[s] = "idle"
     /\ nCmds < MaxCmds
     /\ cop' = [cop EXCEPT ![s] = "Land"]
     /\ ctx' = [ctx EXCEPT ![s] = "halt"]
     /\ cpc' = [cpc EXCEPT ![s] = "enter"]
     /\ nCmds' = nCmds + 1
     /\ UNCHANGED <<stepsfa0b, commandCharacteristic, mu, creg, cframe, cret, cmdOut,
                    cmdSeqs, nIncs, seq0a, seq0b, panicked>>
     /\ noCmdChange
     /\ UNCHANGED callerVars
     /\ UNCHANGED statusVars
     /\ UNCHANGED startVars
     /\ UNCHANGED toolVars
     /\ UNCHANGED loopVars
  \/ /\ cpc[s] = "sleep"
     /\ cpc' = [cpc EXCEPT ![s] = "idle"]
     /\ cret' = [cret EXCEPT ![s] = "nil"]
     /\ UNCHANGED <<stepsfa0b, commandCharacteristic, mu, cop, ctx, creg, cframe,
                    cmdOut, cmdSeqs, nCmds, nIncs, seq0a, seq0b, panicked>>
     /\ noCmdChange
     /\ UNCHANGED callerVars
     /\ UNCHANGED statusVars
     /\ UNCHANGED startVars
     /\ UNCHANGED toolVars
     /\ UNCHANGED loopVars

(***************************************************************************)
(* Start: the handshake.  The caller's position is kept in cpc, like that  *)
(* of every sender: Start sends the settings frame and two flat trims on   *)
(* the command channel itself.  The transport answers each discovery with  *)
(* an error or with a list of the items it found.                          *)
(***************************************************************************)
Answer(step, err, n) == [step |-> step, err |-> err, n |-> n]

DiscoveryOutcomeIgnoresError(err, n, used) ==
  IF n = 0 THEN "error" ELSE IF n < used THEN "panic" ELSE "ok"

\* switch { case err != nil: return err; case len(list) == 0: return errors.New(...) }
\* followed by the index expressions list[0] .. list[used-1], which panic past
\* the end of the list.
DiscoveryOutcome(err, n, used) ==
  IF err # "nil" THEN "error"
  ELSE IF n = 0 THEN "error"
  ELSE IF n < used THEN "panic"
  ELSE "ok"

noStartChange ==
  /\ UNCHANGED <<stepsfa0b, mu, creg, cframe, cmdOut, cmdSeqs, nCmds, nIncs, seq0a, seq0b>>
  /\ noCmdChange
  /\ UNCHANGED callerVars
  /\ UNCHANGED statusVars
  /\ UNCHANGED toolVars

\* One discovery step of Start: the transport's answer is recorded, and Start
\* returns the error, panics on the short list, or goes on to the next step.
Discover(s, step, counts, used, next) ==
  /\ cpc[s] = step
  /\ \E err \in {"nil", "error"}, n \in counts :
       /\ handshake' = Append(handshake, Answer(step, err, n))
       /\ CASE DiscoveryOutcome(err, n, used) = "error" ->
                 /\ startRet' = "error"
                 /\ cpc' = [cpc EXCEPT ![s] = "idle"]
                 /\ UNCHANGED <<commandCharacteristic, panicked>>
            [] DiscoveryOutcome(err, n, used) = "panic" ->
                 /\ panicked' = TRUE
                 /\ UNCHANGED <<startRet, cpc, commandCharacteristic>>
            [] OTHER ->
                 /\ cpc' = [cpc EXCEPT ![s] = next]
                 /\ commandCharacteristic' =
                      IF step = "commandChars" THEN "set" ELSE commandCharacteristic
                 /\ UNCHANGED <<startRet, panicked>>
  /\ UNCHANGED <<cop, ctx, cret>>
  /\ UNCHANGED loopVars
  /\ noStartChange

\* Start (and Init) calls a command operation of its own.
StartSends(s, at, name, as) ==
  /\ cpc[s] = at
  /\ cop' = [cop EXCEPT ![s] = name]
  /\ ctx' = [ctx EXCEPT ![s] = as]
  /\ cpc' = [cpc EXCEPT ![s] = "enter"]
  /\ UNCHANGED <<commandCharacteristic, cret, panicked>>
  /\ UNCHANGED loopVars
  /\ UNCHANGED startVars
  /\ noStartChange

Start(s) ==
  \/ /\ cpc[s] = "idle"
     /\ startRet = "none"
     /\ Len(handshake) = 0
     /\ cpc' = [cpc EXCEPT ![s] = "services"]
     /\ UNCHANGED <<commandCharacteristic, cop, ctx, cret, panicked>>
     /\ UNCHANGED loopVars
        /\ UNCHANGED startVars
     /\ noStartChange
  \/ Discover(s, "services", 0 .. 2, 2, "commandChars")
  \/ Discover(s, "commandChars", 0 .. 2, 2, "statusChars")
  \/ Discover(s, "statusChars", 0 .. 1, 1, "init")
     \* Init: err = m.GenerateAllStates(); if err != nil { return }
  \/ StartSends(s, "init", "GenerateAllStates", "init")
  \/ /\ cpc[s] = "initRet"
     /\ handshake' = Append(handshake, Answer("settings", cret[s], 0))
     /\ IF cret[s] # "nil"
        THEN /\ startRet' = "error"
             /\ cpc' = [cpc EXCEPT ![s] = "idle"]
        ELSE /\ cpc' = [cpc EXCEPT ![s] = "subscribe"]
             /\ UNCHANGED startRet
     /\ UNCHANGED <<commandCharacteristic, cop, ctx, cret, panicked>>
     /\ UNCHANGED loopVars
        /\ noStartChange
     \* Init: err = m.flightStatusCharacteristic.EnableNotifications(...); return
  \/ /\ cpc[s] = "subscribe"
     /\ \E err \in {"nil", "error"} :
          /\ handshake' = Append(handshake, Answer("subscribe", err, 0))
          /\ IF err # "nil"
             THEN /\ startRet' = "error"
                  /\ cpc' = [cpc EXCEPT ![s] = "idle"]
             ELSE /\ cpc' = [cpc EXCEPT ![s] = "trim1"]
                  /\ UNCHANGED startRet
     /\ UNCHANGED <<commandCharacteristic, cop, ctx, cret, panicked>>
     /\ UNCHANGED loopVars
        /\ noStartChange
     \* m.FlatTrim(); m.StartPcmd(); m.FlatTrim(); return
  \/ StartSends(s, "trim1", "FlatTrim", "trim1")
  \/ /\ cpc[s] = "startPcmd"
     /\ FreeSlots # {}
     /\ loopPc' = Spawned
     /\ cpc' = [cpc EXCEPT ![s] = "trim2"]
     /\ UNCHANGED <<pcmdOut, pcmdWrites, pcmdFailed, shutdownReceived, tickSnap>>
     /\ UNCHANGED <<commandCharacteristic, cop, ctx, cret, panicked>>
     /\ UNCHANGED startVars
     /\ noStartChange
  \/ StartSends(s, "trim2", "FlatTrim", "trim2")
  \/ /\ cpc[s] = "startRet"
     /\ startRet' = "nil"
     /\ cpc' = [cpc EXCEPT ![s] = "idle"]
     /\ UNCHANGED handshake
     /\ UNCHANGED <<commandCharacteristic, cop, ctx, cret, panicked>>
     /\ UNCHANGED loopVars
        /\ noStartChange

(***************************************************************************)
(* The status decoder: the callback Init hands to EnableNotifications.     *)
(* Go indexes from 0, the model from 1: data[4] is data[5] here and        *)
(* data[6] is data[7].                                                     *)
(***************************************************************************)
PilotingStateFlatTrimChanged == 0
PilotingStateFlyingStateChanged == 1
FlyingStateLanded == 0
FlyingStateTakeoff == 1
FlyingStateHovering == 2
FlyingStateFlying == 3
FlyingStateLanding == 4
FlyingStateEmergency == 5
FlyingStateRolling == 6

\* Category and sub-state bytes of the notifications delivered: every value the
\* decoder knows, and values it does not know.
Categories == {PilotingStateFlatTrimChanged, PilotingStateFlyingStateChanged, 2, 255}
SubStates ==
  {FlyingStateLanded, FlyingStateTakeoff, FlyingStateHovering, FlyingStateFlying,
   FlyingStateLanding, FlyingStateEmergency, FlyingStateRolling, 7, 255}

\* A notification of n bytes with the given category and sub-state bytes (those
\* that fit); the decoder reads no other byte.
Notification(n, cat, sub) ==
  [i \in 1 .. n |-> IF i = 5 THEN cat ELSE IF i = 7 THEN sub ELSE 2]

Notifications ==
  {Notification(n, cat, sub) : n \in 0 .. MaxFrameLen, cat \in Categories, sub \in SubStates}

TooShortBelow4(d) == Len(d) < 4

\* if len(data) < 5
TooShort(d) == Len(d) < 5

FlyingAfterTakeoffSets(flying, sub) ==
  IF sub \in {FlyingStateTakeoff, FlyingStateHovering, FlyingStateFlying} THEN TRUE
  ELSE IF sub = FlyingStateLanded THEN FALSE
  ELSE flying

\* switch data[6]: m.Flying after the case selected by the sub-state.
FlyingAfter(flying, sub) ==
  CASE sub = FlyingStateLanded -> IF flying THEN FALSE ELSE flying
    [] sub = FlyingStateTakeoff -> flying
    [] sub = FlyingStateHovering -> IF ~flying THEN TRUE ELSE flying
    [] sub = FlyingStateFlying -> IF ~flying THEN TRUE ELSE flying
    [] sub = FlyingStateLanding -> flying
    [] sub = FlyingStateEmergency -> flying
    [] sub = FlyingStateRolling -> flying
    [] OTHER -> flying

noStatusChange ==
  /\ UNCHANGED <<Pcmd, pcmdMutex, stepsfa0a, stepsfa0b, pcmddata, buf, committed>>
  /\ UNCHANGED callerVars
  /\ UNCHANGED loopVars
  /\ UNCHANGED startVars
  /\ UNCHANGED toolVars

\* m.PilotingStateChange(handler)
PilotingStateChange ==
  /\ pilotingStateHandler = "nil"
  /\ dpc = "idle"
  /\ pilotingStateHandler' = "set"
  /\ UNCHANGED <<Flying, dpc, data, prevFlying, repeated, obsThis, obsArgs, obsFlying,
                 nNotifs, regAtNotify>>
  /\ UNCHANGED cmdVars
  /\ noStatusChange

\* The transport delivers a notification: func(buf []byte) { m.processFlightStatus(buf) }
Notify ==
  /\ dpc = "idle"
  /\ nNotifs < MaxNotifs
  /\ \E d \in Notifications :
       /\ data' = d
       /\ repeated' = (nNotifs > 0 /\ d = data)
  /\ prevFlying' = Flying
  /\ obsThis' = 0
  /\ nNotifs' = nNotifs + 1
  /\ regAtNotify' = (pilotingStateHandler # "nil")
  /\ dpc' = "decode"
  /\ UNCHANGED <<Flying, pilotingStateHandler, obsArgs, obsFlying>>
  /\ UNCHANGED cmdVars
  /\ noStatusChange

\* An index expression data[i] past the end of the slice panics.
InRange(d, i) == i <= Len(d)

\* processFlightStatus up to the call of the observer.
processFlightStatus ==
  /\ dpc = "decode"
  /\ IF TooShort(data)
     THEN /\ dpc' = "idle"
          /\ UNCHANGED <<Flying, panicked>>
     ELSE IF ~InRange(data, 5)
     THEN /\ panicked' = TRUE
          /\ UNCHANGED <<Flying, dpc>>
     ELSE IF data[5] = PilotingStateFlatTrimChanged
     THEN /\ dpc' = "observe"
          /\ UNCHANGED <<Flying, panicked>>
     ELSE IF data[5] = PilotingStateFlyingStateChanged
     THEN IF ~InRange(data, 7)
          THEN /\ panicked' = TRUE
               /\ UNCHANGED <<Flying, dpc>>
          ELSE /\ Flying' = FlyingAfter(Flying, data[7])
               /\ dpc' = "observe"
               /\ UNCHANGED panicked
     ELSE /\ dpc' = "idle"
          /\ UNCHANGED <<Flying, panicked>>
  /\ UNCHANGED <<pilotingStateHandler, data, prevFlying, repeated, obsThis, obsArgs,
                 obsFlying, nNotifs, regAtNotify>>
  /\ UNCHANGED <<commandCharacteristic, mu, cpc, cop, ctx, creg, cframe, cret, cmdOut,
                 cmdSeqs, nCmds, nIncs, seq0a, seq0b>>
  /\ noStatusChange

ObserverArgsNoSubState(d) == <<d[5], 0>>

\* The arguments of the observer: (int(data[4]), 0) in the FlatTrimChanged case,
\* (int(data[4]), int(data[6])) in the FlyingStateChanged case.
ObserverArgs(d) ==
  <<d[5], IF d[5] = PilotingStateFlatTrimChanged THEN 0 ELSE d[7]>>

\* if m.pilotingStateHandler != nil { m.pilotingStateHandler(...) }, and the return.
Observe ==
  /\ dpc = "observe"
  /\ IF pilotingStateHandler # "nil"
     THEN /\ obsThis' = obsThis + 1
          /\ obsArgs' = ObserverArgs(data)
          /\ obsFlying' = Flying
     ELSE UNCHANGED <<obsThis, obsArgs, obsFlying>>
  /\ dpc' = "idle"
  /\ UNCHANGED <<Flying, pilotingStateHandler, data, prevFlying, repeated, nNotifs,
                 regAtNotify>>
  /\ UNCHANGED cmdVars
  /\ noStatusChange

(***************************************************************************)
(* The tool layer's is_flying: it reads drone.Flying, without taking mu.   *)
(***************************************************************************)
\* Notifications the decoder has decoded: all those delivered, less the one it
\* has not yet looked at.
Decoded == nNotifs - IF dpc = "decode" THEN 1 ELSE 0

isFlyingToolHandler ==
  /\ response' = IF Flying THEN "true" ELSE "false"
  /\ responseAt' = [sent |-> Len(cmdSeqs), decoded |-> Decoded]
  /\ UNCHANGED <<driverVars, callerVars, loopVars, cmdVars, statusVars, startVars,
                 committed, timerVars>>

(***************************************************************************)
(* The timed tool handlers (up, down, forward, ...): mu.Lock(), the driver *)
(* call, time.AfterFunc(duration, func() { drone.Hover() }), mu.Unlock().  *)
(* The function a timer runs takes no tool-layer mutex.                    *)
(***************************************************************************)
HandlerId(t) == 10 + t

TimedTools == {"Up", "Forward"}

noTimedChange ==
  /\ UNCHANGED <<commandCharacteristic, cpc, cop, ctx, creg, cframe, cret, cmdOut,
                 cmdSeqs, nCmds, nIncs, seq0a, seq0b, panicked>>
  /\ UNCHANGED <<pc, op, val, pre, nCalls, committed>>
  /\ UNCHANGED <<response, responseAt>>
  /\ UNCHANGED driverVars
  /\ UNCHANGED loopVars
  /\ UNCHANGED statusVars
  /\ UNCHANGED startVars

\* The handler's steps around its driver call.
TimedToolHandler(t) ==
     \* the request has been parsed; the handler reaches mu.Lock()
  \/ /\ tpc[t] = "idle"
     /\ \E name \in TimedTools : tool' = [tool EXCEPT ![t] = name]
     /\ \E v \in Magnitudes : speed' = [speed EXCEPT ![t] = v]
     /\ tpc' = [tpc EXCEPT ![t] = "lock"]
     /\ UNCHANGED <<mu, ret, timers, fired, now, motion>>
     /\ noTimedChange
     \* mu.Lock(); defer mu.Unlock()
  \/ /\ tpc[t] = "lock"
     /\ mu = 0
     /\ mu' = HandlerId(t)
     /\ ret' = [ret EXCEPT ![t] = "none"]
     /\ tpc' = [tpc EXCEPT ![t] = "call"]
     /\ UNCHANGED <<tool, speed, timers, fired, now, motion>>
     /\ noTimedChange
     \* err = drone.Up(speed) has returned; if err != nil the handler returns,
     \* else it arms the timer
  \/ /\ tpc[t] = "call"
     /\ pc[t] = "idle"
     /\ ret[t] # "none"
     /\ IF ret[t] # "nil"
        THEN UNCHANGED <<timers, motion>>
        ELSE \E duration \in Durations :
               /\ timers' = Append(timers, now + duration)
               /\ motion' = [tool |-> tool[t], speed |-> speed[t],
                             until |-> now + duration]
     /\ tpc' = [tpc EXCEPT ![t] = "unlock"]
     /\ UNCHANGED <<mu, ret, tool, speed, fired, now>>
     /\ noTimedChange
     \* the deferred mu.Unlock()
  \/ /\ tpc[t] = "unlock"
     /\ mu' = 0
     /\ tpc' = [tpc EXCEPT ![t] = "idle"]
     /\ UNCHANGED <<ret, tool, speed, timers, fired, now, motion>>
     /\ noTimedChange

\* The handler's driver call: drone.Up(speed), drone.Forward(speed).
TimedToolCall(t) ==
  /\ tpc[t] = "call"
  /\ ret[t] = "none"
  /\ \/ tool[t] = "Up" /\ Up(t, {speed[t]})
     \/ tool[t] = "Forward" /\ Forward(t, {speed[t]})

\* A timer that is due fires: its function starts on a goroutine of its own,
\* and that goroutine ends when drone.Hover() has returned.
AfterFunc(g) ==
  \/ /\ tpc[g] = "idle"
     /\ \E k \in (1 .. Len(timers)) \ fired :
          /\ now >= timers[k]
          /\ fired' = fired \cup {k}
     /\ ret' = [ret EXCEPT ![g] = "none"]
     /\ tpc' = [tpc EXCEPT ![g] = "hover"]
     /\ UNCHANGED <<mu, tool, speed, timers, now, motion>>
     /\ noTimedChange
  \/ /\ tpc[g] = "hover"
     /\ pc[g] = "idle"
     /\ ret[g] # "none"
     /\ tpc' = [tpc EXCEPT ![g] = "idle"]
     /\ UNCHANGED <<mu, ret, tool, speed, timers, fired, now, motion>>
     /\ noTimedChange

\* func() { drone.Hover() }
AfterFuncHover(g) ==
  /\ tpc[g] = "hover"
  /\ ret[g] = "none"
  /\ Hover(g)

\* Time passes.
Tick ==
  /\ now < MaxTime
  /\ now' = now + 1
  /\ UNCHANGED <<mu, ret, tpc, tool, speed, timers, fired, motion>>
  /\ noTimedChange

(***************************************************************************)
(* Initial states.  NewMinidrone leaves the vector zero, both counters 0,  *)
(* the characteristics nil and no loop.  A successful Start has set the    *)
(* characteristics, sent three command frames (settings, two flat trims)   *)
(* and spawned the PCMD loop.                                              *)
(***************************************************************************)
SessionHeading(psi, started, a0, b0) ==
  /\ Pcmd = [ZeroPcmd EXCEPT !.Psi = psi]
  /\ pcmdMutex = 0
  /\ stepsfa0a = a0
  /\ stepsfa0b = b0
  /\ pcmddata = ZeroFrame
  /\ buf = [i \in 11 .. 14 |-> 0]
  /\ pc = [t \in Goroutines |-> "idle"]
  /\ op = [t \in Goroutines |-> "none"]
  /\ val = [t \in Goroutines |-> 0]
  /\ ret = [t \in Goroutines |-> "none"]
  /\ pre = [t \in Goroutines |-> ZeroPcmd]
  /\ loopPc = [l \in LoopSlots |-> IF started /\ l \in Loops THEN "sleep500" ELSE "none"]
  /\ pcmdOut = <<>>
  /\ pcmdWrites = 0
  /\ pcmdFailed = FALSE
  /\ shutdownReceived = FALSE
  /\ committed = [ZeroPcmd EXCEPT !.Psi = psi]
  /\ tickSnap = [ZeroPcmd EXCEPT !.Psi = psi]
  /\ nCalls = 0
  /\ commandCharacteristic = IF started THEN "set" ELSE "nil"
  /\ mu = 0
  /\ cpc = [s \in Senders |-> "idle"]
  /\ cop = [s \in Senders |-> "none"]
  /\ ctx = [s \in Senders |-> "api"]
  /\ creg = [s \in Senders |-> 0]
  /\ cframe = [s \in Senders |-> <<>>]
  /\ cret = [s \in Senders |-> "none"]
  /\ cmdOut = <<>>
  /\ cmdSeqs = <<>>
  /\ nCmds = 0
  /\ nIncs = 0
  /\ seq0a = a0
  /\ seq0b = b0
  /\ panicked = FALSE
  /\ Flying = FALSE
  /\ pilotingStateHandler = "nil"
  /\ dpc = "idle"
  /\ data = <<>>
  /\ prevFlying = FALSE
  /\ repeated = FALSE
  /\ obsThis = 0
  /\ obsArgs = <<>>
  /\ obsFlying = FALSE
  /\ nNotifs = 0
  /\ regAtNotify = FALSE
  /\ startRet = IF started THEN "nil" ELSE "none"
  /\ handshake = <<>>
  /\ response = "none"
  /\ responseAt = [sent |-> 0, decoded |-> 0]
  /\ tpc = [t \in Goroutines |-> "idle"]
  /\ tool = [t \in Callers |-> "none"]
  /\ speed = [t \in Callers |-> 0]
  /\ timers = <<>>
  /\ fired = {}
  /\ now = 0
  /\ motion = [tool |-> "none", speed |-> 0, until |-> 0]

\* NewMinidrone sets the heading, like the rest of the vector, to 0.
Session(started, a0, b0) == SessionHeading(0, started, a0, b0)

\* m.stepsfa0b once Start has returned on a fresh session.
StartedSeq == 3

(***************************************************************************)
(* Specification: a started session, its PCMD loop and concurrent callers  *)
(* of the movement operations.                                             *)
(***************************************************************************)
Init == Session(TRUE, 0, StartedSeq)

Next ==
  \/ \E t \in Callers :
       \/ Up(t, Magnitudes) \/ Down(t, Magnitudes)
       \/ Forward(t, Magnitudes) \/ Backward(t, Magnitudes)
       \/ Right(t, Magnitudes) \/ Left(t, Magnitudes)
       \/ Clockwise(t, Magnitudes) \/ CounterClockwise(t, Magnitudes)
       \/ Hover(t)
  \/ \E l \in Loops : PcmdTick(l)

Spec == Init /\ [][Next]_vars

(***************************************************************************)
(* Specification: the movement operations alone, with magnitudes from the  *)
(* whole range of the argument.                                            *)
(***************************************************************************)
NextMove ==
  \E t \in Callers :
    \/ Up(t, WideMagnitudes) \/ Down(t, WideMagnitudes)
    \/ Forward(t, WideMagnitudes) \/ Backward(t, WideMagnitudes)
    \/ Right(t, WideMagnitudes) \/ Left(t, WideMagnitudes)
    \/ Clockwise(t, WideMagnitudes) \/ CounterClockwise(t, WideMagnitudes)
    \/ Hover(t)

SpecMove == Init /\ [][NextMove]_vars

(***************************************************************************)
(* Specification: each channel taken alone.  One caller issues command     *)
(* operations one after the other while the PCMD loop ticks; the counters  *)
(* start at values a long-running session reaches, next to both wraps.     *)
(***************************************************************************)
\* <<m.stepsfa0a, m.stepsfa0b>> at the start: fresh, before the byte's wrap
\* (254 -> 255 -> 256) and before the 16-bit wrap (65534 -> 65535 -> 0).
SeqStarts == {<<0, 254>>, <<254, 65534>>, <<65534, 0>>, <<65534, 65534>>}

InitSeq == \E st \in SeqStarts : Session(TRUE, st[1], st[2])

NextSeq ==
  \/ \E s \in {1} : ApiCall(s) \/ CommandBody(s)
  \/ \E l \in Loops : PcmdTick(l)

SpecSeq == InitSeq /\ [][NextSeq]_vars

(***************************************************************************)
(* Specification: shutdown.  Tool handlers send commands under mu, Halt is *)
(* called (by the signal handler, without mu), any number of times, and    *)
(* the PCMD loop ticks until it receives the shutdown signal.  Nothing     *)
(* runs after a panic.                                                     *)
(***************************************************************************)
InitHalt == Session(TRUE, 0, StartedSeq)

NextHalt ==
  /\ ~panicked
  /\ \/ \E s \in Senders : ToolHandler(s) \/ Halt(s) \/ CommandBody(s)
     \/ \E l \in Loops : PcmdTick(l) \/ PcmdShutdown(l)

SpecHalt == InitHalt /\ [][NextHalt]_vars

(***************************************************************************)
(* Specification: the status decoder.  The transport delivers              *)
(* notifications of any length and content, one at a time; an observer may *)
(* be registered.  Nothing runs after a panic.                             *)
(***************************************************************************)
NextStatus ==
  /\ ~panicked
  /\ (PilotingStateChange \/ Notify \/ processFlightStatus \/ Observe)

SpecStatus == Init /\ [][NextStatus]_vars

(***************************************************************************)
(* Specification: the life of the PCMD loop.  The loop ticks, its writes   *)
(* succeed or fail as the transport decides, and one goroutine calls Halt. *)
(***************************************************************************)
NextLoop ==
  /\ ~panicked
  /\ \/ \E s \in {1} : Halt(s) \/ Land(s)
     \/ \E l \in Loops : PcmdTick(l) \/ PcmdShutdown(l)

SpecLoop == Init /\ [][NextLoop]_vars

(***************************************************************************)
(* Specification: Start on a fresh session.  One goroutine calls Start;    *)
(* the transport answers each step as it pleases; the PCMD loop runs once  *)
(* Start has spawned it.                                                   *)
(***************************************************************************)
InitStart == Session(FALSE, 0, 0)

NextStart ==
  /\ ~panicked
  /\ \/ \E s \in {1} : Start(s) \/ GenerateAllStates(s) \/ FlatTrim(s)
     \/ \E l \in Loops : PcmdTick(l)

SpecStart == InitStart /\ [][NextStart]_vars

(***************************************************************************)
(* Specification: the frame encoder.  The application has stored a heading *)
(* in the exported field m.Pcmd.Psi (its float32 bit pattern: 0.0, 1.0,    *)
(* 1.23); one caller moves the drone on each axis, by the smallest and the *)
(* largest magnitude, while the PCMD loop encodes and writes.              *)
(***************************************************************************)
EncodeMagnitudes == {1, 100}

Headings == {0, 1065353216, 1067282596}

InitEncode == \E psi \in Headings : SessionHeading(psi, TRUE, 0, StartedSeq)

NextEncode ==
  \/ \E t \in {1} :
       \/ Down(t, EncodeMagnitudes) \/ Backward(t, EncodeMagnitudes)
       \/ Right(t, EncodeMagnitudes) \/ CounterClockwise(t, EncodeMagnitudes)
       \/ Hover(t)
  \/ \E l \in Loops : PcmdTick(l)

SpecEncode == InitEncode /\ [][NextEncode]_vars

(***************************************************************************)
(* Specification: one application goroutine on a started session.  It      *)
(* calls movement and command operations one after the other while the     *)
(* PCMD loop ticks.  MaxEvents bounds the calls and ticks begun, together. *)
(***************************************************************************)
EventsLeft == nCalls + nCmds + nNotifs + pcmdWrites < MaxEvents

NextOps ==
  \/ \E t \in {1} :
       /\ cpc[t] = "idle"
       /\ pc[t] = "idle" => EventsLeft
       /\ \/ Up(t, Magnitudes) \/ Down(t, Magnitudes)
          \/ Forward(t, Magnitudes) \/ Backward(t, Magnitudes)
          \/ Right(t, Magnitudes) \/ Left(t, Magnitudes)
          \/ Clockwise(t, Magnitudes) \/ CounterClockwise(t, Magnitudes)
          \/ Hover(t)
  \/ \E s \in {1} :
       /\ pc[s] = "idle"
       /\ cpc[s] = "idle" => EventsLeft
       /\ ApiCall(s) \/ CommandBody(s)
  \/ \E l \in Loops :
       /\ loopPc[l] = "select" => EventsLeft
       /\ PcmdTick(l)

SpecOps == Init /\ [][NextOps]_vars

(***************************************************************************)
(* Specification: a whole session.  One application goroutine calls Start  *)
(* on a fresh session and, once it has succeeded, movement and command     *)
(* operations and Halt, one after the other; the PCMD loop runs from the   *)
(* moment Start spawns it; the transport delivers notifications from the   *)
(* moment Init has subscribed.                                             *)
(***************************************************************************)
Subscribed ==
  \E i \in 1 .. Len(handshake) : handshake[i].step = "subscribe" /\ handshake[i].err = "nil"

\* The notifications the drone sends in such a session: it hovers, it has
\* landed, its trim has changed, and a sync too short to decode.
AppNotifications ==
  {Notification(7, PilotingStateFlyingStateChanged, FlyingStateHovering),
   Notification(7, PilotingStateFlyingStateChanged, FlyingStateLanded),
   Notification(7, PilotingStateFlatTrimChanged, 0),
   Notification(4, 2, 2)}

NextApp ==
  /\ ~panicked
  /\ \/ \E s \in {1} : Start(s)
     \/ \E t \in {1} :
          /\ cpc[t] = "idle"
          /\ pc[t] = "idle" => (startRet = "nil" /\ EventsLeft)
          /\ \/ Up(t, Magnitudes) \/ Down(t, Magnitudes)
             \/ Forward(t, Magnitudes) \/ Backward(t, Magnitudes)
             \/ Right(t, Magnitudes) \/ Left(t, Magnitudes)
             \/ Clockwise(t, Magnitudes) \/ CounterClockwise(t, Magnitudes)
             \/ Hover(t)
     \/ \E s \in {1} :
          /\ pc[s] = "idle"
          /\ cpc[s] = "idle" => (startRet = "nil" /\ EventsLeft)
          /\ ApiCall(s) \/ Halt(s) \/ CommandBody(s)
     \/ \E l \in Loops :
          /\ loopPc[l] = "select" => EventsLeft
          /\ PcmdTick(l) \/ PcmdShutdown(l)
     \/ /\ Subscribed
        /\ EventsLeft
        /\ Notify
        /\ data' \in AppNotifications
     \/ processFlightStatus
     \/ Observe

SpecApp == InitStart /\ [][NextApp]_vars

(***************************************************************************)
(* Specification: a flight, end to end, on a started session.  The tool    *)
(* layer takes off and, once the drone has reported that it hovers, lands; *)
(* the drone answers the take-off frame with a Hovering notification and   *)
(* the land frame with a Landed one; is_flying is asked at any moment; the *)
(* PCMD loop ticks throughout.                                             *)
(***************************************************************************)
NextFlight ==
  \/ \E s \in {1} :
       \/ /\ nCmds = 0
          /\ ToolHandler(s)
          /\ cop'[s] = "TakeOff"
       \/ /\ nCmds = 1
          /\ nNotifs = 1
          /\ ToolHandler(s)
          /\ cop'[s] = "Land"
       \/ /\ cpc[s] # "idle"
          /\ ToolHandler(s) \/ TakeOff(s) \/ Land(s)
  \/ /\ nNotifs = 0
     /\ Len(cmdSeqs) = 1
     /\ Notify
     /\ data' = Notification(7, PilotingStateFlyingStateChanged, FlyingStateHovering)
  \/ /\ nNotifs = 1
     /\ Len(cmdSeqs) = 2
     /\ Notify
     /\ data' = Notification(7, PilotingStateFlyingStateChanged, FlyingStateLanded)
  \/ processFlightStatus
  \/ Observe
  \/ isFlyingToolHandler
  \/ \E l \in Loops : PcmdTick(l)

SpecFlight == Init /\ [][NextFlight]_vars

(***************************************************************************)
(* Specification: a session used whether or not it was started.  One       *)
(* goroutine calls movement and command operations and Halt on a session   *)
(* that NewMinidrone has created and Start has, or has not, started.       *)
(***************************************************************************)
InitAny == Session(FALSE, 0, 0) \/ Session(TRUE, 0, StartedSeq)

NextAny ==
  /\ ~panicked
  /\ \/ \E t \in {1} :
          /\ cpc[t] = "idle"
          /\ pc[t] = "idle" => EventsLeft
          /\ \/ Up(t, Magnitudes) \/ Down(t, Magnitudes)
             \/ Forward(t, Magnitudes) \/ Backward(t, Magnitudes)
             \/ Right(t, Magnitudes) \/ Left(t, Magnitudes)
             \/ Clockwise(t, Magnitudes) \/ CounterClockwise(t, Magnitudes)
             \/ Hover(t)
     \/ \E s \in {1} :
          /\ pc[s] = "idle"
          /\ cpc[s] = "idle" => EventsLeft
          /\ ApiCall(s) \/ Halt(s) \/ CommandBody(s)
     \/ \E l \in Loops :
          /\ loopPc[l] = "select" => EventsLeft
          /\ PcmdTick(l) \/ PcmdShutdown(l)

SpecAny == InitAny /\ [][NextAny]_vars

\* Start, StartPcmd and Halt called in any order by the application, on a
\* session that is created or already started; every started loop ticks.
NextLoops ==
  /\ ~panicked
  /\ \/ \E s \in {1} :
          Start(s) \/ GenerateAllStates(s) \/ FlatTrim(s) \/ Land(s) \/ Halt(s)
     \/ StartPcmd
     \/ \E l \in LoopSlots : PcmdTick(l) \/ PcmdShutdown(l)

SpecLoops == InitAny /\ [][NextLoops]_vars

\* Timed tool calls on a started session, made one after the other: the
\* handler, the timers it arms, and time.  At most MaxCalls timed calls are made.
TimedCallsLeft ==
  Len(timers) + Cardinality({t \in Callers : tpc[t] \in {"lock", "call"}}) < MaxCalls

NextTimers ==
  \/ \E t \in {1} :
       \/ (tpc[t] = "idle" => TimedCallsLeft) /\ TimedToolHandler(t)
       \/ TimedToolCall(t)
  \/ \E g \in Timers : AfterFunc(g) \/ AfterFuncHover(g)
  \/ Tick

SpecTimers == Init /\ [][NextTimers]_vars

\* The tool server at work on a started session: timed handlers called
\* concurrently, the timers' Hover calls, the loop, notification delivery, and
\* time.  The requests, ticks and notifications that arrive are bounded
\* together; a step inside a handler, a call, a tick or a delivery is never
\* held back.
LiveEventsLeft ==
  Len(timers) + Cardinality({t \in Callers : tpc[t] \in {"lock", "call"}})
    + nNotifs + pcmdWrites < MaxEvents

TimedStep(t) ==
  \/ (tpc[t] = "idle" => (TimedCallsLeft /\ LiveEventsLeft)) /\ TimedToolHandler(t)
  \/ TimedToolCall(t)

\* The drone reports that it hovers.
LiveNotifications ==
  {Notification(7, PilotingStateFlyingStateChanged, FlyingStateHovering)}

TimerStep(g) == AfterFunc(g) \/ AfterFuncHover(g)

LoopStep(l) == (loopPc[l] = "select" => LiveEventsLeft) /\ PcmdTick(l)

NotificationStep ==
  \/ LiveEventsLeft /\ Notify /\ data' \in LiveNotifications
  \/ processFlightStatus
  \/ Observe

\* Time matters to this system only while a timer is waiting for it.
TimeStep == (\E k \in (1 .. Len(timers)) \ fired : now < timers[k]) /\ Tick

NextLive ==
  \/ \E t \in Callers : TimedStep(t)
  \/ \E g \in Timers : TimerStep(g)
  \/ \E l \in Loops : LoopStep(l)
  \/ NotificationStep
  \/ TimeStep

\* The scheduler runs a runnable goroutine, a due timer fires and a transport
\* write returns: while some step of the system is possible, a step is taken.
\* This asks less than fairness to every goroutine does.
Fairness == WF_vars(NextLive)

SpecLive == Init /\ [][NextLive]_vars /\ Fairness

(***************************************************************************)
(* Properties.                                                             *)
(***************************************************************************)
\* The byte that carries a small signed integer in two's complement.
TwosComplement(x) == IF x < 0 THEN x + 256 ELSE x

\* The flag/roll/pitch/yaw/throttle bytes of a frame, and of a motion vector.
FrameVector(f) == <<f[7], f[8], f[9], f[10], f[11]>>
EncodedVector(p) ==
  <<TwosComplement(p.Flag), TwosComplement(p.Roll), TwosComplement(p.Pitch),
    TwosComplement(p.Yaw), TwosComplement(p.Gaz)>>

DirectionalOps ==
  {"Up", "Down", "Forward", "Backward", "Right", "Left", "Clockwise", "CounterClockwise"}
OwnAxis(o) ==
  CASE o \in {"Up", "Down"} -> "Gaz"
    [] o \in {"Forward", "Backward"} -> "Pitch"
    [] o \in {"Right", "Left"} -> "Roll"
    [] o \in {"Clockwise", "CounterClockwise"} -> "Yaw"
IsPositive(o) == o \in {"Up", "Forward", "Right", "Clockwise"}
Clamped(m) == IF m < 0 THEN 0 ELSE IF m > 100 THEN 100 ELSE m

\* C1: every PCMD frame handed to the transport carries, in its flag, roll, pitch,
\* yaw and throttle bytes, the motion vector left by the last mutator call that had
\* completed when the tick took the mutex: one vector that existed between two
\* complete calls, never a mix of the writes of two calls or of a call in progress.
C1_NoTornFrame ==
  \A l \in Loops :
    /\ loopPc[l] = "write" => FrameVector(pcmddata) = EncodedVector(tickSnap)
    /\ (loopPc[l] = "select" /\ pcmdWrites > 0)
         => FrameVector(pcmdOut) = EncodedVector(tickSnap)

\* A frame of an active motion has been handed over while a later mutator call is
\* between its two writes.
C1_Witness ==
  /\ pcmdWrites > 0
  /\ pcmdOut[7] = 1
  /\ pcmdOut[9] # 0
  /\ \E t \in Callers : pc[t] = "axis"

\* C3: when a directional call with magnitude m is about to return, its axis holds
\* clamp(m, 0, 100), positive for Up/Forward/Right/Clockwise and negative for
\* Down/Backward/Left/CounterClockwise, the flag is 1, and no call returns an error.
C3_DirectionalClamp ==
  \A t \in Callers :
    /\ (pc[t] = "ret" /\ op[t] \in DirectionalOps) =>
         /\ Pcmd.Flag = 1
         /\ Pcmd[OwnAxis(op[t])] =
              IF IsPositive(op[t]) THEN Clamped(val[t]) ELSE 0 - Clamped(val[t])
    /\ ret[t] \in {"none", "nil"}

\* Backward with a magnitude above 100 has set pitch to -100, after a call that
\* was given a magnitude below 0 returned.
C3_Witness ==
  \E t \in Callers :
    /\ pc[t] = "ret" /\ op[t] = "Backward" /\ val[t] = 300 /\ Pcmd.Pitch = -100
    /\ \E u \in Callers : ret[u] = "nil"

\* C4: when Hover is about to return the flag, the four axes and the heading are
\* all 0, whatever the vector was before, and Hover applied to that vector again
\* gives the same vector.
C4_HoverResets ==
  \A t \in Callers :
    (pc[t] = "ret" /\ op[t] = "Hover") =>
      /\ Pcmd.Flag = 0 /\ Pcmd.Roll = 0 /\ Pcmd.Pitch = 0
      /\ Pcmd.Yaw = 0 /\ Pcmd.Gaz = 0 /\ Pcmd.Psi = 0
      /\ HoverPcmd(Pcmd) = Pcmd

\* Hover has reset a vector whose flag was 1 and whose throttle was not 0.
C4_Witness ==
  \E t \in Callers :
    /\ pc[t] = "ret" /\ op[t] = "Hover"
    /\ pre[t].Flag = 1 /\ pre[t].Gaz # 0
    /\ Pcmd.Gaz = 0

\* C5: when a directional call is about to return, every field of the vector other
\* than the flag and the call's own axis (throttle for Up/Down, pitch for
\* Forward/Backward, roll for Right/Left, yaw for Clockwise/CounterClockwise) holds
\* the value it had when the call began.
C5_OtherAxesKept ==
  \A t \in Callers :
    (pc[t] = "ret" /\ op[t] \in DirectionalOps) =>
      \A f \in {"Roll", "Pitch", "Yaw", "Gaz", "Psi"} \ {OwnAxis(op[t])} :
        Pcmd[f] = pre[t][f]

\* Right has changed roll and kept a pitch that an earlier call had set.
C5_Witness ==
  \E t \in Callers :
    /\ pc[t] = "ret" /\ op[t] = "Right"
    /\ pre[t].Pitch # 0 /\ Pcmd.Pitch = pre[t].Pitch
    /\ Pcmd.Roll # pre[t].Roll

\* C2: a Halt call never ends in a panic, and is never blocked in its send on
\* m.shutdown with no PCMD loop left to receive it (a loop never started, or one
\* that an earlier Halt has already stopped); so every Halt call returns.
C2_HaltReturns ==
  /\ ~panicked
  /\ \A s \in Senders :
       cpc[s] = "send" => \E l \in Loops : loopPc[l] \notin {"none", "exited"}

\* C6: on each channel taken alone the frames carry the sequence bytes
\* (seq0+1) mod 256, (seq0+2) mod 256, ... in order, also across 255 -> 0 and
\* across the 16-bit counter's wrap; the command counter counts the command
\* operations only and the PCMD counter the ticks only.
C6_SequenceBytes ==
  /\ \A i \in 1 .. Len(cmdSeqs) : cmdSeqs[i] = (seq0b + i) % 256
  /\ Len(cmdSeqs) > 0 => cmdOut[2] = cmdSeqs[Len(cmdSeqs)]
  /\ pcmdWrites > 0 => pcmdOut[2] = (seq0a + pcmdWrites) % 256
  /\ stepsfa0b = (seq0b + nIncs) % 65536
  /\ \A l \in Loops :
       stepsfa0a = (seq0a + pcmdWrites
                      + IF loopPc[l] \in {"flag", "axes", "psi", "write"} THEN 1 ELSE 0)
                     % 65536

\* Both channels have gone 255 -> 0 across the 16-bit wrap, interleaved.
C6_Witness ==
  /\ seq0b = 65534 /\ Len(cmdSeqs) >= 2 /\ cmdSeqs[1] = 255 /\ cmdSeqs[2] = 0
  /\ seq0a = 65534 /\ pcmdWrites = 2 /\ pcmdOut[2] = 0
  /\ stepsfa0a = 0

\* C7: with a tool handler (under mu) and Halt (without mu) sending on the command
\* channel, every frame written carries a sequence byte that is greater (mod 256)
\* than that of the frame written before it, no two frames carry the same byte,
\* and the counter has advanced by one for every increment executed.
C7_CommandSequenceStrict ==
  /\ \A i \in 2 .. Len(cmdSeqs) : (cmdSeqs[i] - cmdSeqs[i - 1]) % 256 \in 1 .. 127
  /\ \A i, j \in 1 .. Len(cmdSeqs) : i # j => cmdSeqs[i] # cmdSeqs[j]
  /\ (\A s \in Senders : cpc[s] \notin {"store"}) => stepsfa0b = (seq0b + nIncs) % 65536

\* The last notification delivered carried at least seven bytes with the
\* FlyingStateChanged category, and the decoder has got past its switch.
FlyingStateDecoded ==
  /\ nNotifs > 0
  /\ dpc \in {"observe", "idle"}
  /\ Len(data) >= 7
  /\ data[5] = PilotingStateFlyingStateChanged

\* C8: after a FlyingStateChanged notification, whatever Flying was before it,
\* Flying is true for the sub-states Hovering and Flying, false for Landed, and
\* what it was before for TakingOff, Landing, Emergency and Rolling; a
\* notification equal to the one before it leaves Flying as the first left it;
\* and the decoder raises no error.
C8_FlyingStateDecoded ==
  FlyingStateDecoded =>
    /\ data[7] \in {FlyingStateHovering, FlyingStateFlying} => Flying
    /\ data[7] = FlyingStateLanded => ~Flying
    /\ data[7] \in {FlyingStateTakeoff, FlyingStateLanding, FlyingStateEmergency,
                    FlyingStateRolling} => Flying = prevFlying
    /\ repeated => Flying = prevFlying
    /\ ~panicked

\* A Landed notification arrived while Flying was true and cleared it.
C8_Witness ==
  /\ FlyingStateDecoded
  /\ dpc = "idle"
  /\ data[7] = FlyingStateLanded
  /\ prevFlying
  /\ ~Flying

\* C9: no notification is fatal, whatever its length and content: the process
\* does not die of it, and a notification that is not a well-formed
\* FlyingStateChanged frame leaves Flying as it was.
C9_NotificationNeverFatal ==
  /\ ~panicked
  /\ (nNotifs > 0 /\ ~(Len(data) >= 7 /\ data[5] = PilotingStateFlyingStateChanged)) =>
       Flying = prevFlying

\* C10: a notification shorter than five bytes is ignored: Flying keeps its
\* value, the observer is not invoked, no frame is sent on either channel and no
\* error is raised.
C10_ShortNotificationIgnored ==
  (nNotifs > 0 /\ Len(data) < 5) =>
    /\ dpc \in {"decode", "idle"}
    /\ Flying = prevFlying
    /\ obsThis = 0
    /\ Len(cmdSeqs) = 0
    /\ pcmdWrites = 0
    /\ ~panicked

\* A four-byte notification has been processed while the drone was flying and
\* an observer was registered.
C10_Witness ==
  /\ nNotifs > 1
  /\ Len(data) = 4
  /\ dpc = "idle"
  /\ Flying
  /\ pilotingStateHandler = "set"

\* The last notification delivered is one the decoder reports: FlatTrimChanged
\* of at least five bytes, or FlyingStateChanged of at least seven.
Reportable ==
  /\ nNotifs > 0
  /\ Len(data) >= 5
  /\ \/ data[5] = PilotingStateFlatTrimChanged
     \/ data[5] = PilotingStateFlyingStateChanged /\ Len(data) >= 7

\* C11: with an observer registered, a FlatTrimChanged or FlyingStateChanged
\* notification causes exactly one observer invocation, made after Flying has
\* been updated (the observer finds the updated value) and before the decoder
\* returns (none is outstanding once it has returned), with the arguments
\* (byte 4, byte 6), the second being 0 for FlatTrimChanged; with no observer
\* registered the notification is decoded all the same and Flying updated.
C11_ObserverInvokedOnce ==
  /\ obsThis <= 1
  /\ (Reportable /\ dpc = "observe") => obsThis = 0
  /\ (Reportable /\ dpc = "idle" /\ regAtNotify) =>
       /\ obsThis = 1
       /\ obsArgs[1] = data[5]
       /\ obsArgs[2] = IF data[5] = PilotingStateFlatTrimChanged THEN 0 ELSE data[7]
       /\ obsFlying = Flying
  /\ (Reportable /\ dpc = "idle" /\ ~regAtNotify) => obsThis = 0
  /\ (Reportable /\ dpc = "idle" /\ data[5] = PilotingStateFlyingStateChanged) =>
       /\ data[7] \in {FlyingStateHovering, FlyingStateFlying} => Flying
       /\ data[7] = FlyingStateLanded => ~Flying

\* The observer was invoked for a Hovering notification and found Flying
\* already set, though it was clear when the notification arrived.
C11_Witness ==
  /\ Reportable
  /\ dpc = "idle"
  /\ regAtNotify
  /\ data[5] = PilotingStateFlyingStateChanged
  /\ data[7] = FlyingStateHovering
  /\ ~prevFlying
  /\ obsThis = 1
  /\ obsFlying

\* No observer was registered, and a Hovering notification still set Flying.
C11_WitnessUnobserved ==
  /\ Reportable
  /\ dpc = "idle"
  /\ ~regAtNotify
  /\ data[5] = PilotingStateFlyingStateChanged
  /\ data[7] = FlyingStateHovering
  /\ ~prevFlying
  /\ Flying

\* C14: a failed write in a tick does not stop the PCMD loop.  The loop has
\* exited only if it has received the shutdown signal; after a write, failed or
\* not, it is back at its select; and every tick it performs, however many
\* writes have failed before, encodes anew with the PCMD sequence incremented
\* and hands the transport the frame carrying that sequence.
C14_LoopSurvivesWriteErrors ==
  \A l \in Loops :
    /\ loopPc[l] = "exited" => shutdownReceived
    /\ (pcmdFailed /\ ~shutdownReceived) =>
         loopPc[l] \in {"select", "lock", "hdr", "flag", "axes", "psi", "write"}
    /\ stepsfa0a = (seq0a + pcmdWrites
                      + IF loopPc[l] \in {"flag", "axes", "psi", "write"} THEN 1 ELSE 0)
                     % 65536
    /\ loopPc[l] = "write" => pcmddata[2] = (seq0a + pcmdWrites + 1) % 256
    /\ pcmdWrites > 0 => pcmdOut[2] = (seq0a + pcmdWrites) % 256

\* A write has failed, and the loop has since encoded the next frame and is
\* about to write it.
C14_Witness ==
  /\ pcmdFailed
  /\ pcmdWrites > 0
  /\ ~shutdownReceived
  /\ \E l \in Loops : loopPc[l] = "write" /\ pcmddata[2] = (seq0a + pcmdWrites + 1) % 256

\* The transport has reported an error to some step of Start.
HandshakeFailed == \E i \in 1 .. Len(handshake) : handshake[i].err # "nil"

\* A flat-trim frame has been handed to the command characteristic.
FlatTrimSent == Len(cmdOut) = 6 /\ cmdOut[5] = 0

\* C19: if a handshake step of Start fails (a discovery, the write of the
\* settings frame, the notification subscription), Start returns an error: the
\* failed step is the last one it attempts (no retry: each step is attempted at
\* most once), no flat-trim frame is sent and the PCMD loop is never started.
C19_HandshakeFailureAborts ==
  /\ \A i \in 1 .. Len(handshake) - 1 : handshake[i].err = "nil"
  /\ \A i, j \in 1 .. Len(handshake) : i # j => handshake[i].step # handshake[j].step
  /\ HandshakeFailed =>
       /\ startRet = "error"
       /\ \A s \in Senders : cpc[s] = "idle"
       /\ Len(cmdSeqs) <= 1
       /\ ~FlatTrimSent
       /\ \A l \in Loops : loopPc[l] = "none"
       /\ pcmdWrites = 0

\* The subscription failed after the settings frame had been written, and Start
\* has returned the error.
C19_Witness ==
  /\ startRet = "error"
  /\ Len(handshake) = 5
  /\ handshake[5].step = "subscribe"
  /\ handshake[5].err # "nil"
  /\ Len(cmdSeqs) = 1

\* The transport has answered a discovery without error but with a list
\* shorter than Start needs.
ShortAnswer ==
  \E i \in 1 .. Len(handshake) :
    /\ handshake[i].err = "nil"
    /\ \/ handshake[i].step \in {"services", "commandChars"} /\ handshake[i].n < 2
       \/ handshake[i].step = "statusChars" /\ handshake[i].n < 1

\* C20: when the transport returns fewer services or characteristics than
\* required, Start fails with an error and does not crash.
C20_ShortDiscoveryFails ==
  /\ ~panicked
  /\ ShortAnswer => startRet = "error"

\* C15: every PCMD frame handed to the transport is 19 bytes: 2, the PCMD
\* counter after its increment for that tick, 2, 0, 2, 0, then the low 8 bits
\* (two's complement when negative) of flag, roll, pitch, yaw and throttle of
\* the motion vector read in that tick, four heading bytes and four zero bytes.
C15_PcmdFrameLayout ==
  \A l \in Loops :
    pcmdWrites > 0 =>
      /\ Len(pcmdOut) = 19
      /\ \A i \in 1 .. 19 : pcmdOut[i] \in 0 .. 255
      /\ <<pcmdOut[1], pcmdOut[3], pcmdOut[4], pcmdOut[5], pcmdOut[6]>> = <<2, 2, 0, 2, 0>>
      /\ pcmdOut[2] = (seq0a + pcmdWrites) % 256
      /\ <<pcmdOut[16], pcmdOut[17], pcmdOut[18], pcmdOut[19]>> = <<0, 0, 0, 0>>
      /\ loopPc[l] = "select" => FrameVector(pcmdOut) = EncodedVector(tickSnap)

\* A frame has been handed over that carries a negative pitch and a negative
\* throttle as their two's complements.
C15_Witness ==
  /\ pcmdWrites > 1
  /\ \A l \in Loops : loopPc[l] = "select"
  /\ tickSnap.Pitch = -100
  /\ tickSnap.Gaz = -1
  /\ pcmdOut[9] = 156
  /\ pcmdOut[11] = 255

\* The 32-bit pattern that four bytes hold in little-endian order.
Uint32(b0, b1, b2, b3) == b0 + 256 * b1 + 65536 * b2 + 16777216 * b3

\* C16: the heading round-trips through the frame: bytes 11..14 of every PCMD
\* frame handed to the transport, decoded as a little-endian 32-bit pattern,
\* are the heading the motion vector held at that tick.
C16_HeadingRoundTrip ==
  \A l \in Loops :
    (pcmdWrites > 0 /\ loopPc[l] = "select") =>
      Uint32(pcmdOut[12], pcmdOut[13], pcmdOut[14], pcmdOut[15]) = tickSnap.Psi

\* C17: directional operations and Hover only update the motion vector.  No
\* step of a movement call changes what has been handed to either
\* characteristic or either sequence counter, and a frame reaches the PCMD
\* characteristic only by the write of the PCMD loop.
C17_MovementDoesNotTransmit ==
  [][/\ pc' # pc =>
          UNCHANGED <<pcmdOut, pcmdWrites, cmdOut, cmdSeqs, stepsfa0a, stepsfa0b, pcmddata>>
     /\ (pcmdOut' # pcmdOut \/ pcmdWrites' # pcmdWrites) =>
          \E l \in Loops : loopPc[l] = "write" /\ loopPc'[l] = "select"]_vars

\* Movement calls have changed the vector and returned, and no frame has been
\* handed to the PCMD characteristic and neither counter has moved.
C17_Witness ==
  /\ nCalls > 1
  /\ \A t \in Callers : pc[t] = "idle"
  /\ committed.Flag = 1
  /\ committed.Gaz # 0
  /\ pcmdWrites = 0
  /\ stepsfa0a = seq0a
  /\ stepsfa0b = seq0b
  /\ Len(cmdSeqs) = 0

\* The command operations begun by the application and not yet returned.
CommandsInFlight == Cardinality({s \in Senders : cpc[s] # "idle"})

\* C18: TakeOff, Land, Emergency, FlatTrim and the flips each write exactly one
\* frame on the command characteristic within the call, with the command
\* counter incremented exactly once: the frames written and the increments made
\* number the calls returned, plus one for a call that has got that far.  No
\* step of such a call changes the motion vector or the PCMD counter.
C18_CommandOneFrame ==
  /\ [](/\ Len(cmdSeqs) = nCmds - CommandsInFlight
        /\ nIncs = nCmds - Cardinality({s \in Senders : cpc[s] \in {"enter", "store"}})
        /\ stepsfa0b = (seq0b + nIncs) % 65536
        /\ Len(cmdSeqs) > 0 => cmdOut[2] = (seq0b + Len(cmdSeqs)) % 256)
  /\ [][cpc' # cpc => UNCHANGED <<Pcmd, stepsfa0a, pcmddata, pcmdOut, pcmdWrites>>]_vars

\* A flip has been sent and has returned while the vector held a motion, and
\* the vector still holds it.
C18_Witness ==
  /\ Len(cmdSeqs) = 1
  /\ cmdOut = FrontFlipFrame((seq0b + 1) % 256)
  /\ \A s \in Senders : cpc[s] = "idle"
  /\ Pcmd.Flag = 1
  /\ Pcmd.Pitch = 50
  /\ stepsfa0a = seq0a

\* C12: Flying is false when the session is created and for as long as no
\* notification has arrived, and it changes only in the step in which the
\* status decoder processes a FlyingStateChanged notification: no step of
\* Start, of a command operation, of a movement operation, of Halt or of the
\* PCMD loop changes it.
C12_FlyingOnlyByDecoder ==
  /\ [](nNotifs = 0 => ~Flying)
  /\ [][Flying' # Flying =>
          /\ dpc = "decode" /\ dpc' = "observe"
          /\ data[5] = PilotingStateFlyingStateChanged
          /\ UNCHANGED <<pc, cpc, loopPc, cmdOut, pcmdOut>>]_vars

\* A Hovering notification has set Flying, and a Land sent afterwards has
\* returned and left it set.
C12_Witness ==
  /\ Flying
  /\ nNotifs = 1
  /\ dpc = "idle"
  /\ startRet = "nil"
  /\ Len(cmdSeqs) = 4
  /\ cmdOut = LandFrame(4)
  /\ \A s \in Senders : cpc[s] = "idle"

\* C13: end to end, after a successful Start: is_flying reports false until
\* the Hovering notification that follows TakeOff has been decoded (TakeOff
\* itself changes nothing), true from then until the Landed notification that
\* follows Land has been decoded (Land itself changes nothing), and false after.
C13_FlightEndToEnd ==
  /\ Flying = (Decoded = 1)
  /\ response # "none" => response = IF responseAt.decoded = 1 THEN "true" ELSE "false"

\* is_flying was asked after the Land frame had gone out and the Landed
\* notification had been decoded, and answered false; the flight is over.
C13_Witness ==
  /\ response = "false"
  /\ responseAt = [sent |-> 2, decoded |-> 2]
  /\ cmdOut = LandFrame(5)
  /\ ~Flying

\* is_flying was asked between Land and the Landed notification, and answered
\* as before the Land.
C13_WitnessBetween ==
  /\ response = "true"
  /\ responseAt = [sent |-> 2, decoded |-> 1]

\* C21: on a session that was created but not started (its command
\* characteristic is absent) no operation crashes the process, and every
\* operation that returns, a command operation, Halt, a directional operation
\* or Hover, returns an error.
C21_UnstartedReturnsError ==
  commandCharacteristic = "nil" =>
    /\ ~panicked
    /\ \A t \in Callers : ret[t] \in {"none", "error"}
    /\ \A s \in Senders : cret[s] \in {"none", "error"}

\* Start has asked the transport to enable notifications.
SubscribeAttempted ==
  \E i \in 1 .. Len(handshake) : handshake[i].step = "subscribe"

\* C22: in a successful Start the settings frame is written first, then
\* notifications are enabled, then the first flat trim is written, then the
\* PCMD loop is spawned, then the second flat trim is written; on a fresh
\* session the three frames carry the sequence bytes 1, 2, 3; and no PCMD frame
\* is written before the first flat trim.
C22_StartOrder ==
  /\ \A i \in 1 .. Len(cmdSeqs) : cmdSeqs[i] = i
  /\ Len(cmdSeqs) = 1 => cmdOut = GenerateAllStatesFrame(1)
  /\ Len(cmdSeqs) = 2 => cmdOut = FlatTrimFrame(2)
  /\ Len(cmdSeqs) = 3 => cmdOut = FlatTrimFrame(3)
  /\ SubscribeAttempted => Len(cmdSeqs) >= 1
  /\ Len(cmdSeqs) >= 2 => Subscribed
  /\ (\E l \in Loops : loopPc[l] # "none") => Len(cmdSeqs) >= 2
  /\ Len(cmdSeqs) >= 3 => \A l \in Loops : loopPc[l] # "none"
  /\ pcmdWrites > 0 => Len(cmdSeqs) >= 2
  /\ startRet = "nil" => Len(cmdSeqs) = 3

\* Start has succeeded, and the loop it spawned has written a frame.
C22_Witness ==
  /\ startRet = "nil"
  /\ cmdSeqs = <<1, 2, 3>>
  /\ cmdOut = FlatTrimFrame(3)
  /\ Subscribed
  /\ pcmdWrites > 0

\* Halt has returned to the sender that called it.
HaltReturned(s) == ctx[s] = "halt" /\ cpc[s] = "idle" /\ cret[s] = "nil"

\* C23: shutdown is observed only at the top of a tick.  Once a Halt has got
\* past its send, and so once it has returned, the one loop has exited; an
\* exited loop writes no PCMD frame and changes neither the PCMD counter nor the
\* frame buffer; the loop exits from its select only, so a tick that had passed
\* the select when Halt reached its send writes its frame first: at the exit
\* every increment of the counter has had its write.
C23_ShutdownAtTopOfTick ==
  /\ [](\A s \in Senders, l \in Loops :
          /\ (cpc[s] = "sleep" \/ HaltReturned(s)) => loopPc[l] = "exited"
          /\ loopPc[l] = "exited" => stepsfa0a = (seq0a + pcmdWrites) % 65536)
  /\ [][\A l \in Loops :
          /\ loopPc[l] = "exited" =>
               UNCHANGED <<loopPc, pcmdOut, pcmdWrites, stepsfa0a, pcmddata>>
          /\ (loopPc'[l] = "exited" /\ loopPc[l] # "exited") => loopPc[l] = "select"
          /\ (loopPc[l] \in {"lock", "hdr", "flag", "axes", "psi"}
                /\ \E s \in Senders : cpc[s] = "send") => loopPc'[l] # "exited"]_vars

\* Halt has returned after the loop had written frames, and the loop has exited.
C23_Witness ==
  /\ \E s \in Senders : HaltReturned(s)
  /\ \A l \in Loops : loopPc[l] = "exited"
  /\ pcmdWrites > 1
  /\ stepsfa0a = seq0a + pcmdWrites

\* Halt is blocked in its send while a tick that has passed the select is
\* about to write its frame.
C23_WitnessMidTick ==
  /\ \E s \in Senders : cpc[s] = "send"
  /\ \E l \in Loops : loopPc[l] = "write"

\* The last frame handed to the command characteristic is a Land frame.
LandWritten == Len(cmdSeqs) >= 1 /\ cmdOut = LandFrame(cmdSeqs[Len(cmdSeqs)])

\* C24: Halt hands the Land frame to the command characteristic before it
\* signals the loop: a Halt at its send, at its sleep or returned has written
\* the frame, and the loop has received no signal before a Land frame was
\* written.  Whatever the write returned, Halt goes from the write to the send;
\* a Halt past its send has had its signal received, and Halt returns nil.
C24_HaltLandsThenSignals ==
  /\ [](/\ shutdownReceived => LandWritten
        /\ \A s \in Senders : ctx[s] = "halt" =>
             /\ cpc[s] \in {"send", "sleep", "idle"} => LandWritten
             /\ cpc[s] \in {"sleep", "idle"} => shutdownReceived
             /\ cpc[s] = "idle" => cret[s] = "nil")
  /\ [][\A s \in Senders :
          (ctx[s] = "halt" /\ cpc[s] = "write" /\ cpc'[s] # "write") =>
             /\ cpc'[s] = "send"
             /\ cret'[s] \in {"nil", "error"}
             /\ Len(cmdSeqs') = Len(cmdSeqs) + 1]_vars

\* Halt's Land write failed, and its signal has been received all the same.
C24_Witness ==
  \E s \in Senders :
    /\ ctx[s] = "halt"
    /\ cpc[s] = "sleep"
    /\ cret[s] = "error"
    /\ shutdownReceived
    /\ LandWritten

\* Halt has returned nil after a Land write that succeeded.
C24_WitnessReturned ==
  \E s \in Senders : HaltReturned(s) /\ shutdownReceived /\ LandWritten

\* The signed value of one byte.
Int8(b) == IF b >= 128 THEN b - 256 ELSE b

\* C25: whatever movement calls have run or are running, with whatever
\* magnitudes, the flag is 0 or 1 and roll, pitch, yaw and throttle are each
\* within -100 .. 100, so the byte each is encoded as decodes to the same value.
C25_VectorInRange ==
  /\ Pcmd.Flag \in {0, 1}
  /\ \A axis \in {"Roll", "Pitch", "Yaw", "Gaz"} :
       /\ Pcmd[axis] \in -100 .. 100
       /\ Int8(Byte(Pcmd[axis])) = Pcmd[axis]

\* Two calls given magnitudes outside -100 .. 100 have left one axis at 100 and
\* another at -100.
C25_Witness ==
  /\ \E t \in Callers : pc[t] = "ret" /\ op[t] \in DirectionalOps /\ val[t] \in {-300, 300}
  /\ \E a, b \in {"Roll", "Pitch", "Yaw", "Gaz"} : Pcmd[a] = 100 /\ Pcmd[b] = -100
  /\ Pcmd.Flag = 1

\* The loops that have been started and have not exited.
RunningLoops == {l \in LoopSlots : loopPc[l] \notin {"none", "exited"}}

\* C26: at most one loop is running; no loop fills the shared frame buffer
\* while another loop is handing that buffer to the transport; once a Halt has
\* returned no loop is running.
C26_SingleLoop ==
  /\ Cardinality(RunningLoops) <= 1
  /\ \A a, b \in LoopSlots :
       (a # b /\ loopPc[a] = "write") => loopPc[b] \notin {"hdr", "flag", "axes", "psi"}
  /\ (\E s \in Senders : HaltReturned(s)) => RunningLoops = {}

\* C27: while no handler is at work and the duration of the last timed tool
\* call has not elapsed, the motion vector still holds the motion that call
\* set: no timer armed by an earlier call has reset it.
C27_TimerClearsOwnMotion ==
  (mu = 0 /\ motion.tool # "none" /\ now < motion.until) =>
     /\ Pcmd.Flag = 1
     /\ Pcmd[OwnAxis(motion.tool)] = Clamped(motion.speed)

\* A goroutine has reached m.pcmdMutex.Lock() and does not hold the mutex yet.
AtPcmdLock(t) == tpc[t] \in {"call", "hover"} /\ ret[t] = "none" /\ pc[t] = "idle"

\* C28: no goroutine waits for a mutex for ever and none stays inside an
\* operation for ever: again and again each handler is not waiting at
\* mu.Lock(), each handler call, timer Hover and tick is not waiting at
\* m.pcmdMutex.Lock(), and each tool handler, timer function, tick and
\* notification delivery is complete; a handler leaves its mu.Lock() only as
\* the holder of the tool-layer mutex.
C28_NoLockDeadlock ==
  /\ \A t \in Goroutines :
       /\ []<>(tpc[t] # "lock")
       /\ []<>(~AtPcmdLock(t))
       /\ []<>(tpc[t] = "idle")
  /\ \A l \in Loops :
       /\ []<>(loopPc[l] # "lock")
       /\ []<>(loopPc[l] \in {"select", "sleep500"})
  /\ []<>(dpc = "idle")
  /\ [][\A t \in Callers :
          (tpc[t] = "lock" /\ tpc'[t] # "lock") => (mu = 0 /\ mu' = HandlerId(t))]_vars

\* A timed handler holds the tool-layer mutex and waits for the motion-vector
\* mutex, which the loop holds, while the other handler waits for the
\* tool-layer mutex.
C28_Witness ==
  \E t, u \in Callers :
    /\ AtPcmdLock(t) /\ mu = HandlerId(t)
    /\ tpc[u] = "lock"
    /\ \E l \in Loops : pcmdMutex = LoopId(l)

\* A timer's Hover holds the motion-vector mutex while a handler that holds
\* the tool-layer mutex waits for it.
C28_WitnessTimer ==
  \E t \in Callers, g \in Timers :
    AtPcmdLock(t) /\ mu = HandlerId(t) /\ pcmdMutex = g

====
